---- MODULE Spec2Model ----
(***************************************************************************)
(* Sponsor discovery pipeline of sponsormatch: the contact-discovery       *)
(* waterfall (services/contact-discovery.ts) with its HTTP handler         *)
(* (api/contacts/discover/route.ts), the sponsor scraper (services/scraper *)
(* with the garbage classifier and name cleaner), and the per-host rate    *)
(* limiter of rateLimitedFetch.                                            *)
(*                                                                         *)
(* Text is modelled at word level: a string is the sequence of its         *)
(* whitespace-separated words, joined by single blanks.  The words come    *)
(* from a fixed vocabulary (WordInfo / Vocabulary) and every regular       *)
(* expression of the source is evaluated as it evaluates on strings built  *)
(* from these words.                                                       *)
(***************************************************************************)
EXTENDS Integers, Sequences, FiniteSets, TLC

VARIABLES
  \* ---- contacts-discover handler and discoverContacts
  hpc,          \* position of the POST handler
  httpStatus,   \* status of the handler's response, 0 while none
  sponsor,      \* the stored sponsor row: companyName, website, contactEmail, ...
  userReveals,  \* user.contactReveals
  bestContact,  \* the contact picked by the handler (NoContact while none)
  dpc,          \* position inside discoverContacts
  hasApiKey,    \* process.env.HUNTER_API_KEY is set
  pathIdx,      \* index into CONTACT_PAGE_PATTERNS of the scrape loop
  pageLog,      \* the contact pages requested, with the business emails each gave
  contacts,     \* the local `contacts` array of discoverContacts
  websiteData,  \* the local `websiteData` of discoverContacts
  calls,        \* log of the strategy calls made, with the contacts seen at the call
  apiLog,       \* what the Hunter API answered: addresses reported valid, verifier replies
  dresult,      \* contacts returned by discoverContacts
  \* ---- scrapeClubSponsors
  spc,          \* position inside scrapeClubSponsors
  websiteUrl,   \* its argument
  sponsorPages, \* the pages findSponsorPages returned
  pageIdx,      \* index of the page of the loop of lines 1232-1235
  matched,      \* how many elements the strategies matched, and the last strategy
  pagesRead,    \* how many pages were fetched and read in this run
  fetchLog,     \* which fetches of this run gave a page: page 0 is the homepage
  allSponsors,  \* the local `allSponsors` array
  sresult,      \* the ScrapeResult: sponsors, scrapedUrls, errors
  \* ---- rateLimitedFetch
  now,             \* Date.now()
  ticks,           \* how often the clock advanced
  lastRequestTime, \* the map of line 19, 0 for a domain without entry
  rcalls,          \* the calls of rateLimitedFetch, by caller
  \* ---- one helper called on its own
  fpc,          \* the helper and how far its calls have got
  fin,          \* its arguments
  fout          \* what it returned

dvars == <<hpc, httpStatus, sponsor, userReveals, bestContact, dpc, hasApiKey,
           pathIdx, pageLog, contacts, websiteData, calls, apiLog, dresult>>

svars == <<spc, websiteUrl, sponsorPages, pageIdx, matched, pagesRead, fetchLog,
           allSponsors, sresult>>

rvars == <<now, ticks, lastRequestTime, rcalls>>

pvars == <<fpc, fin, fout>>

vars == <<dvars, svars, rvars, pvars>>

----------------------------------------------------------------------------
(* Generic helpers *)

Range(s) == {s[i] : i \in 1..Len(s)}

Min2(a, b) == IF a <= b THEN a ELSE b

\* s.slice(0, n)
Take(s, n) == SubSeq(s, 1, Min2(n, Len(s)))

\* the sequences over S without repetition, of length at most n
RECURSIVE SeqsNoRep(_, _)
SeqsNoRep(S, n) ==
  IF n = 0 THEN {<<>>}
  ELSE LET shorter == SeqsNoRep(S, n - 1)
       IN  shorter \cup
           {Append(p[1], p[2]) : p \in {q \in shorter \X S : q[2] \notin Range(q[1])}}

----------------------------------------------------------------------------
(* Contact discovery: data *)

\* An email address local@domain is the sequence <<local, "@">> followed by the
\* parts of the domain ("acme.com.au" is <<"acme", ".com.au">>, so that a domain
\* built from a company name and one taken from a URL are equal when their
\* strings are); the empty sequence is an absent (undefined or empty) email.
NoEmail == <<>>

MkEmail(local, domain) == <<local, "@">> \o domain

EmailLocal(e) == e[1]

EmailDomain(e) == SubSeq(e, 3, Len(e))

CONTACT_PAGE_PATTERNS ==
  <<"/contact", "/contact-us", "/about/contact", "/get-in-touch", "/reach-us",
    "/about", "/about-us", "/support", "/">>

PERSONAL_EMAIL_DOMAINS ==
  {<<"gmail.com">>, <<"yahoo.com">>, <<"hotmail.com">>, <<"outlook.com">>,
   <<"icloud.com">>, <<"live.com">>, <<"msn.com">>, <<"aol.com">>, <<"mail.com">>,
   <<"protonmail.com">>, <<"zoho.com">>}

SKIP_EMAIL_PREFIXES ==
  {"noreply", "no-reply", "donotreply", "do-not-reply", "mailer-daemon",
   "postmaster", "webmaster", "unsubscribe", "bounce", "auto"}

EMAIL_PRIORITY_ORDER ==
  <<"marketing", "sponsorship", "partnerships", "partner", "contact", "hello",
    "enquiries", "inquiries", "info", "sales", "business", "admin", "office",
    "reception">>

\* The local parts that occur in the modelled pages, each with the keywords of
\* SKIP_EMAIL_PREFIXES and EMAIL_PRIORITY_ORDER it contains as a substring and
\* its length in characters.
LocalInfo ==
  [l \in {"info", "sales", "marketing", "admin", "jane.doe", "joe", "noreply",
          "automation", "contact", "a"} |->
     CASE l = "info"       -> [has |-> {"info"}, len |-> 4]
       [] l = "sales"      -> [has |-> {"sales"}, len |-> 5]
       [] l = "marketing"  -> [has |-> {"marketing"}, len |-> 9]
       [] l = "admin"      -> [has |-> {"admin"}, len |-> 5]
       [] l = "jane.doe"   -> [has |-> {}, len |-> 8]
       [] l = "joe"        -> [has |-> {}, len |-> 3]
       [] l = "noreply"    -> [has |-> {"noreply"}, len |-> 7]
       [] l = "automation" -> [has |-> {"auto"}, len |-> 10]
       [] l = "contact"    -> [has |-> {"contact"}, len |-> 7]
       [] l = "a"          -> [has |-> {}, len |-> 1]]

\* prefix.includes(word)
LocalIncludes(local, word) == word \in LocalInfo[local].has

\* A contact as pushed by the strategies.  Absent optional fields are "" (phone,
\* linkedIn), NoEmail (email) and "undefined" (verified).
Contact(email, phone, linkedIn, source, confidence, verified) ==
  [email |-> email, phone |-> phone, linkedIn |-> linkedIn, source |-> source,
   confidence |-> confidence, verified |-> verified]

NoContact == Contact(NoEmail, "", "", "none", "none", "undefined")

HasEmail(c) == c.email # NoEmail

----------------------------------------------------------------------------
(* Words and their characters *)

\* The vocabulary: every word that occurs in a modelled text, with its
\* lower-case form and its length in characters.
WordInfo ==
  [w \in {"Acme", "ACME", "Foods", "Logo", "Sponsor", "Gold", "of", "cmyk",
          "qmp0samij3o2ocrz", "r3f6csp8h866", "Pty", "Ltd", "AB", "Acme%20Foods",
          "Acme%2520Foods", "50%",
          "acme", "foods", "logo", "sponsor", "gold", "pty", "ltd", "ab",
          "acme%20foods", "acme%2520foods",
          "gmail.com", ".com.au", ".com", "not a url"} |->
     CASE w \in {"Acme", "ACME", "acme"} -> [lower |-> "acme", len |-> 4, letters |-> 4]
       [] w \in {"Foods", "foods"}       -> [lower |-> "foods", len |-> 5, letters |-> 5]
       [] w \in {"Logo", "logo"}         -> [lower |-> "logo", len |-> 4, letters |-> 4]
       [] w \in {"Sponsor", "sponsor"}   -> [lower |-> "sponsor", len |-> 7, letters |-> 7]
       [] w \in {"Gold", "gold"}         -> [lower |-> "gold", len |-> 4, letters |-> 4]
       [] w = "of"                       -> [lower |-> "of", len |-> 2, letters |-> 2]
       [] w = "cmyk"                     -> [lower |-> "cmyk", len |-> 4, letters |-> 4]
       [] w = "qmp0samij3o2ocrz"
            -> [lower |-> "qmp0samij3o2ocrz", len |-> 16, letters |-> 13]
       [] w = "r3f6csp8h866"
            -> [lower |-> "r3f6csp8h866", len |-> 12, letters |-> 6]
       [] w \in {"Pty", "pty"}           -> [lower |-> "pty", len |-> 3, letters |-> 3]
       [] w \in {"Ltd", "ltd"}           -> [lower |-> "ltd", len |-> 3, letters |-> 3]
       [] w \in {"AB", "ab"}             -> [lower |-> "ab", len |-> 2, letters |-> 2]
       [] w \in {"Acme%20Foods", "acme%20foods"}
            -> [lower |-> "acme%20foods", len |-> 12, letters |-> 9]
       [] w \in {"Acme%2520Foods", "acme%2520foods"}
            -> [lower |-> "acme%2520foods", len |-> 14, letters |-> 9]
       [] w = "50%"                      -> [lower |-> "50%", len |-> 3, letters |-> 0]
       [] w = "gmail.com"                -> [lower |-> "gmail.com", len |-> 9, letters |-> 8]
       [] w = ".com.au"                  -> [lower |-> ".com.au", len |-> 7, letters |-> 5]
       [] w = ".com"                     -> [lower |-> ".com", len |-> 4, letters |-> 3]
       [] w = "not a url"                -> [lower |-> "not a url", len |-> 9, letters |-> 7]]

\* word.toLowerCase()
LowerWord(w) == WordInfo[w].lower

\* text.toLowerCase(), word by word
Lower(t) == [i \in 1..Len(t) |-> LowerWord(t[i])]

RECURSIVE SumLen(_)
SumLen(t) == IF t = <<>> THEN 0 ELSE WordInfo[Head(t)].len + SumLen(Tail(t))

\* text.length of the words joined by single blanks
CharLen(t) == IF t = <<>> THEN 0 ELSE SumLen(t) + (Len(t) - 1)

RECURSIVE LetterCount(_)
LetterCount(t) ==
  IF t = <<>> THEN 0 ELSE WordInfo[Head(t)].letters + LetterCount(Tail(t))

RECURSIVE Flatten(_)
Flatten(ss) == IF ss = <<>> THEN <<>> ELSE Head(ss) \o Flatten(Tail(ss))

\* decodeURIComponent of one word: "threw" marks a malformed escape
DecodeWordOnce(w) ==
  CASE w = "Acme%2520Foods" -> <<"Acme%20Foods">>
    [] w = "Acme%20Foods"   -> <<"Acme", "Foods">>
    [] w = "acme%2520foods" -> <<"acme%20foods">>
    [] w = "acme%20foods"   -> <<"acme", "foods">>
    [] OTHER                -> <<w>>

Malformed(t) == \E i \in 1..Len(t) : t[i] = "50%"

DecodeOnce(t) == Flatten([i \in 1..Len(t) |-> DecodeWordOnce(t[i])])

\* the chain of .replace(/%20/g, " ") ... .replace(/%25/g, "%") of the catch branch
ManualDecodeWord(w) ==
  CASE w = "Acme%2520Foods" -> <<"Acme%20Foods">>
    [] w = "Acme%20Foods"   -> <<"Acme", "Foods">>
    [] w = "acme%2520foods" -> <<"acme%20foods">>
    [] w = "acme%20foods"   -> <<"acme", "foods">>
    [] OTHER                -> <<w>>

ManualDecode(t) == Flatten([i \in 1..Len(t) |-> ManualDecodeWord(t[i])])

MAX_DECODE_ITERATIONS == 5

\* while (decoded !== previous && iterations < 5) decoded = decodeURIComponent(decoded)
RECURSIVE DecodeLoop(_, _, _, _)
DecodeLoop(text, decoded, previous, iterations) ==
  IF decoded = previous \/ iterations >= MAX_DECODE_ITERATIONS THEN decoded
  ELSE IF Malformed(decoded) THEN ManualDecode(text)
  ELSE DecodeLoop(text, DecodeOnce(decoded), decoded, iterations + 1)

\* cleanAndDecodeText; the empty previous "" is a one-word text no input equals
CleanAndDecodeText(text) ==
  IF text = <<>> THEN <<>> ELSE DecodeLoop(text, text, <<"">>, 0)

----------------------------------------------------------------------------
(* The garbage classifier and the name cleaner of the scraper *)

\* the words that are a run of 12 or more letters and digits (hashPattern)
HashWords == {"qmp0samij3o2ocrz", "r3f6csp8h866"}

\* the words matching /^[a-z]\d[a-z0-9]{8,}/i, the mid-string hash of cleanSponsorName
LetterDigitHashWords == {"r3f6csp8h866"}

\* isGarbageText.  Of its patterns, the vocabulary meets the 12+ character hash
\* (pattern 1, which also covers patterns 4 and 5 here) and the file keyword
\* "cmyk" (pattern 3); no word holds a filename pattern (pattern 2).
IsGarbageText(t) ==
  \/ t = <<>>
  \/ \E i \in 1..Len(t) : t[i] \in HashWords
  \/ \E i \in 1..Len(t) : LowerWord(t[i]) = "cmyk"

\* the texts over the vocabulary that a pattern of NON_SPONSOR_PATTERNS matches
\* as a whole: /^logos?$/i, /^sponsor$/i, /^gold\s*(sponsor|partner)?$/i
BlockedTexts == {<<"logo">>, <<"sponsor">>, <<"gold">>, <<"gold", "sponsor">>}

\* some pattern of NON_SPONSOR_PATTERNS matches: the whole-text patterns above,
\* /cmyk/i, /\br\d[a-z0-9]{5,}/i and /\bq[a-z0-9]{10,}/i
MatchesNonSponsorPattern(t) ==
  \/ Lower(t) \in BlockedTexts
  \/ \E i \in 1..Len(t) : LowerWord(t[i]) = "cmyk" \/ t[i] \in HashWords

\* some pattern of BUSINESS_SUFFIXES matches: in the vocabulary, a last word
\* "pty" or "ltd"
HasBusinessSuffix(t) ==
  t # <<>> /\ LowerWord(t[Len(t)]) \in {"pty", "ltd"}

MIN_NAME_LENGTH == 2

MAX_NAME_LENGTH == 100

MIN_SINGLE_WORD_LENGTH == 4

SUSPICIOUS_LOWERCASE_BELOW == 8

\* isValidSponsorName.  No text over the vocabulary is a URL, a file path, a
\* file name, camel case or on the single-word blacklist, so of the checks of
\* lines 496-552 the letter checks and the single-word rules are the ones met.
IsValidSponsorName(name) ==
  /\ name # <<>>
  /\ CharLen(name) >= MIN_NAME_LENGTH
  /\ CharLen(name) <= MAX_NAME_LENGTH
  /\ ~IsGarbageText(name)
  /\ ~MatchesNonSponsorPattern(name)
  /\ LetterCount(name) > 0
  /\ ~(10 * LetterCount(name) < 3 * CharLen(name))
  /\ Len(name) = 1 =>
       /\ CharLen(name) >= MIN_SINGLE_WORD_LENGTH
       /\ (name = Lower(name) /\ CharLen(name) < SUSPICIOUS_LOWERCASE_BELOW)
            => HasBusinessSuffix(name)

\* t without its first n words
Drop(t, n) == SubSeq(t, n + 1, Len(t))

\* t without its last word
DropLast(t) == SubSeq(t, 1, Len(t) - 1)

\* the i-th word lower-cased, "" past the end
WordAt(t, i) == IF i >= 1 /\ i <= Len(t) THEN LowerWord(t[i]) ELSE ""

TIER_WORDS ==
  {"major", "principal", "gold", "silver", "bronze", "platinum", "community",
   "official"}

\* .replace(/\s+[a-z0-9]{12,}$/i, ""): a trailing hash that follows a blank
StripTrailingHash(t) ==
  IF Len(t) > 1 /\ t[Len(t)] \in HashWords THEN DropLast(t) ELSE t

\* .replace(/\s+[a-z]\d[a-z0-9]{8,}/gi, ""): every letter-digit hash after a blank
StripMidHashes(t) ==
  LET keep == {i \in 1..Len(t) : i = 1 \/ t[i] \notin LetterDigitHashWords}
      Pos(k) == CHOOSE i \in keep : Cardinality({j \in keep : j <= i}) = k
  IN  [k \in 1..Cardinality(keep) |-> t[Pos(k)]]

\* the garbageTerms loop: of its terms the vocabulary holds "cmyk", removed
\* wherever it follows a blank
StripGarbageTerms(t) ==
  LET keep == {i \in 1..Len(t) : i = 1 \/ LowerWord(t[i]) # "cmyk"}
      Pos(k) == CHOOSE i \in keep : Cardinality({j \in keep : j <= i}) = k
  IN  [k \in 1..Cardinality(keep) |-> t[Pos(k)]]

\* prefixPatterns[0]: /^logo\s+of\s+(partner|sponsor|...)\s+/i
StripPrefix0(t) ==
  IF WordAt(t, 1) = "logo" /\ WordAt(t, 2) = "of" /\ WordAt(t, 3) = "sponsor"
     /\ Len(t) > 3
  THEN Drop(t, 3) ELSE t

\* prefixPatterns[1]: /^(tier)\s+(partner|sponsor)\s+logo\s*(of)?\s*/i
StripPrefix1(t) ==
  IF WordAt(t, 1) \in TIER_WORDS /\ WordAt(t, 2) = "sponsor" /\ WordAt(t, 3) = "logo"
  THEN IF WordAt(t, 4) = "of" THEN Drop(t, 4) ELSE Drop(t, 3)
  ELSE t

\* prefixPatterns[2]: /^(tier)\s+(partner|sponsor)\s+/i
StripPrefix2(t) ==
  IF WordAt(t, 1) \in TIER_WORDS /\ WordAt(t, 2) = "sponsor" /\ Len(t) > 2
  THEN Drop(t, 2) ELSE t

\* prefixPatterns[3]: /^logo\s*(of|for)?\s*(partner|sponsor)?\s*/i
StripPrefix3(t) ==
  IF WordAt(t, 1) = "logo"
  THEN LET afterOf == IF WordAt(t, 2) = "of" THEN Drop(t, 2) ELSE Drop(t, 1)
       IN  IF WordAt(afterOf, 1) = "sponsor" THEN Drop(afterOf, 1) ELSE afterOf
  ELSE t

\* prefixPatterns[5]: /^sponsor\s*logo\s*(of|for)?\s*/i
StripPrefix5(t) ==
  IF WordAt(t, 1) = "sponsor" /\ WordAt(t, 2) = "logo"
  THEN IF WordAt(t, 3) = "of" THEN Drop(t, 3) ELSE Drop(t, 2)
  ELSE t

\* the prefixPatterns loop, each pattern applied once, in order ("partner",
\* "image", "icon" and leading numbers are not in the vocabulary)
StripPrefixes(t) ==
  StripPrefix5(StripPrefix3(StripPrefix2(StripPrefix1(StripPrefix0(t)))))

\* one pattern /\s*word$/i of suffixPatterns
StripSuffix(t, word) ==
  IF t # <<>> /\ LowerWord(t[Len(t)]) = word THEN DropLast(t) ELSE t

\* the suffixPatterns loop, each pattern applied once, in order: of its
\* patterns the vocabulary holds "logo" (first) and "sponsor" (sixth)
StripSuffixes(t) == StripSuffix(StripSuffix(t, "logo"), "sponsor")

\* cleanSponsorName
CleanSponsorName(rawText) ==
  IF rawText = <<>> THEN <<>>
  ELSE LET decoded == CleanAndDecodeText(rawText)
           cleaned == StripSuffixes(StripPrefixes(StripGarbageTerms(
                        StripMidHashes(StripTrailingHash(decoded)))))
       IN  IF CharLen(cleaned) < MIN_NAME_LENGTH THEN <<>>
           ELSE IF IsGarbageText(cleaned) THEN <<>>
           ELSE cleaned

----------------------------------------------------------------------------
(* Sponsor scraper: URLs, image names, candidates                          *)
(* src/unnamed/part_013                                                    *)

\* An absolute URL string: the labels of its hostname and its path. The path
\* is "" only in a base URL whose trailing slash was cut off (line 1221); every
\* string produced by `new URL(..).toString()` has a path starting with "/".
Url(host, path) == [host |-> host, path |-> path]

\* undefined / null / "" where a URL is expected
NoUrl == Url(<<>>, "")

\* An href or src attribute as written in the page. kind is one of
\*   "none" (attribute missing or empty), "fragment" (#...), "javascript",
\*   "relative" (/path on the page's host), "absolute" (http(s)://host/path),
\*   "protorel" (//host/path), "invalid" (new URL throws).
Href(kind, host, path) == [kind |-> kind, host |-> host, path |-> path]

NoHref == Href("none", <<>>, "")

\* new URL(href, base) does not throw (hrefs that are not fragments)
Resolves(h) == h.kind \in {"relative", "absolute", "protorel"}

\* new URL(href, base).toString(), for an href that resolves
NewUrl(h, base) ==
  CASE h.kind \in {"absolute", "protorel"} -> Url(h.host, h.path)
    [] h.kind = "relative" -> Url(base.host, h.path)

\* resolveUrl, lines 1068-1074, applied to a root-relative path
ResolveUrl(path, base) == Url(base.host, path)

\* getBaseDomain, lines 1153-1157: without a leading www, the last two labels
GetBaseDomain(host) ==
  LET h == IF host # <<>> /\ Head(host) = "www" THEN Tail(host) ELSE host
  IN  IF Len(h) <= 2 THEN h ELSE SubSeq(h, Len(h) - 1, Len(h))

\* getExternalUrl, lines 1143-1171 (sourceUrl is the URL of a fetched page)
GetExternalUrl(h, sourceUrl) ==
  IF h.kind \in {"none", "fragment", "javascript"} THEN NoUrl
  ELSE IF ~Resolves(h) THEN NoUrl
  ELSE LET resolved == NewUrl(h, sourceUrl)
       IN  IF GetBaseDomain(resolved.host) # GetBaseDomain(sourceUrl.host)
           THEN resolved ELSE NoUrl

GENERIC_TLDS == {"com", "net", "org", "io", "co", "biz", "info"}

COUNTRY_CODES == {"au", "uk", "nz"}

\* the labels of two or three letters
SHORT_LABELS == {"com", "net", "org", "io", "co", "biz", "au", "uk", "nz", "www"}

\* the two replacements of lines 1092-1094 on the labels of a hostname
StripTld(host) ==
  LET n  == Len(host)
      s1 == IF n >= 3 /\ host[n] \in COUNTRY_CODES /\ host[n - 1] \in GENERIC_TLDS
            THEN SubSeq(host, 1, n - 2)
            ELSE IF n >= 2 /\ host[n] \in GENERIC_TLDS THEN SubSeq(host, 1, n - 1)
            ELSE host
      m  == Len(s1)
  IN  IF m >= 2 /\ s1[m] \in SHORT_LABELS THEN SubSeq(s1, 1, m - 1) ELSE s1

SKIP_DOMAINS ==
  {"facebook", "twitter", "instagram", "linkedin", "youtube", "tiktok", "google",
   "apple", "amazon", "microsoft", "cloudfront", "amazonaws", "cloudinary", "imgix",
   "squarespace", "wixstatic", "shopify"}

\* lines 1119-1125 on one label: split at dashes, capitalise each word
LabelWords(label) ==
  CASE label = "acme-foods" -> <<"Acme", "Foods">>
    [] label = "acme"       -> <<"Acme">>

MAX_URL_NAME_LENGTH == 40

\* extractCompanyNameFromUrl, lines 1080-1137, for an http(s) URL with this
\* hostname whose name part is one label; <<>> is null
ExtractCompanyNameFromUrl(host) ==
  LET h    == IF host # <<>> /\ Head(host) = "www" THEN Tail(host) ELSE host
      rest == StripTld(h)
  IN  IF rest[1] \in SKIP_DOMAINS THEN <<>>
      ELSE LET name == LabelWords(rest[1])
           IN  IF CharLen(name) < 2 \/ CharLen(name) > MAX_URL_NAME_LENGTH
                  \/ LetterCount(name) = 0
               THEN <<>> ELSE name

\* An src attribute of an image: the words of its file name (the name without
\* extension and size suffix, split at dashes and underscores, lines 600-607)
\* and the path it is served from.
Src(given, stem, path) == [given |-> given, stem |-> stem, path |-> path]

NoSrc == Src(FALSE, <<>>, "")

Img(alt, title, href, src) == [alt |-> alt, title |-> title, href |-> href, src |-> src]

NoImg == Img(<<>>, <<>>, NoHref, NoSrc)

\* extractSponsorNameFromImage with the file name held to the same bar as the
\* other sources (no test of lines 619-629)
ExtractSponsorNameFromImage_LaxFilename(img) ==
  LET cleanedAlt   == CleanSponsorName(img.alt)
      cleanedTitle == CleanSponsorName(img.title)
      nameFromUrl  == ExtractCompanyNameFromUrl(img.href.host)
      nameFromFile == CleanSponsorName(img.src.stem)
  IN  IF img.alt # <<>> /\ cleanedAlt # <<>> /\ IsValidSponsorName(cleanedAlt)
      THEN cleanedAlt
      ELSE IF img.title # <<>> /\ cleanedTitle # <<>> /\ IsValidSponsorName(cleanedTitle)
      THEN cleanedTitle
      ELSE IF img.href.kind = "absolute" /\ nameFromUrl # <<>>
              /\ IsValidSponsorName(nameFromUrl)
      THEN nameFromUrl
      ELSE IF img.src.given /\ nameFromFile # <<>> /\ IsValidSponsorName(nameFromFile)
      THEN nameFromFile
      ELSE <<>>

\* extractSponsorNameFromImage, lines 561-634; href is the href of the closest
\* enclosing link; <<>> is null
ExtractSponsorNameFromImage(img) ==
  LET cleanedAlt   == CleanSponsorName(img.alt)
      cleanedTitle == CleanSponsorName(img.title)
      nameFromUrl  == ExtractCompanyNameFromUrl(img.href.host)
      nameFromFile == CleanSponsorName(img.src.stem)
      words        == SelectSeq(nameFromFile, LAMBDA w : WordInfo[w].len > 1)
  IN  IF img.alt # <<>> /\ cleanedAlt # <<>> /\ IsValidSponsorName(cleanedAlt)
      THEN cleanedAlt
      ELSE IF img.title # <<>> /\ cleanedTitle # <<>> /\ IsValidSponsorName(cleanedTitle)
      THEN cleanedTitle
      ELSE IF img.href.kind = "absolute" /\ nameFromUrl # <<>>
              /\ IsValidSponsorName(nameFromUrl)
      THEN nameFromUrl
      ELSE IF img.src.given /\ nameFromFile # <<>> /\ IsValidSponsorName(nameFromFile)
              /\ (Len(words) >= 2 \/ HasBusinessSuffix(nameFromFile))
      THEN nameFromFile
      ELSE <<>>

\* ScrapedSponsor; tier "" and NoUrl stand for an absent field
ScrapedSponsor(name, logo, site, tier, source) ==
  [name |-> name, logoUrl |-> logo, websiteUrl |-> site, tier |-> tier,
   sourceUrl |-> source]

\* An element matched by one of the selectors of extractSponsorsFromPage:
\*   strategy  which loop matched it: "section" (1, lines 659-684), "card" (1b,
\*             689-739), "composer" (1c, 742-772), "list" (2, 775-804),
\*             "heading" (3, 807-865), "gridImg" and "gridLink" (4, 868-909),
\*             "figure" (5, 912-930)
\*   text      the trimmed text of the card label, list item or link
\*   context   card only: the tests of lines 698-712 let it through
\*   heading   heading only: the keywords its lower-cased text includes
\*   hasImg    the element is, or contains, an image
\*   img       that image, with the href of the link around it
Element(strategy, text, context, heading, hasImg, img) ==
  [strategy |-> strategy, text |-> text, context |-> context, heading |-> heading,
   hasImg |-> hasImg, img |-> img]

\* the order in which extractSponsorsFromPage runs its loops
StrategyRank(s) ==
  CASE s = "section" -> 1 [] s = "card" -> 2 [] s = "composer" -> 3
    [] s = "list" -> 4 [] s = "heading" -> 5
    [] s \in {"gridImg", "gridLink"} -> 6 [] s = "figure" -> 7

\* lines 817-828: the tier a matching heading gives its images
HeadingTier(keywords) ==
  IF "major" \in keywords \/ "principal" \in keywords THEN "Major"
  ELSE IF "gold" \in keywords THEN "Gold"
  ELSE IF "silver" \in keywords THEN "Silver"
  ELSE IF "bronze" \in keywords THEN "Bronze"
  ELSE IF "community" \in keywords THEN "Community"
  ELSE ""

\* lines 811-815
IsSponsorHeading(keywords) ==
  keywords \cap {"sponsor", "partner", "supporter"} # {}

\* `text.length > 2 && text.length < 100`, lines 787 and 893
MIN_TEXT_LENGTH_ABOVE == 2

MAX_TEXT_LENGTH_BELOW == 100

IsLabelText(text) ==
  text # <<>> /\ CharLen(text) > MIN_TEXT_LENGTH_ABOVE
              /\ CharLen(text) < MAX_TEXT_LENGTH_BELOW

LogoOf(img, url) == IF img.src.given THEN ResolveUrl(img.src.path, url) ELSE NoUrl

\* What one matched element pushes onto `sponsors` in extractSponsorsFromPage
\* (page URL `url`): a sequence of zero or one ScrapedSponsor.
ElementSponsors(e, url) ==
  LET imgName == IF e.hasImg THEN ExtractSponsorNameFromImage(e.img) ELSE <<>>
      logo    == IF e.hasImg THEN LogoOf(e.img, url) ELSE NoUrl
      site    == GetExternalUrl(e.img.href, url)
  IN  CASE e.strategy \in {"section", "composer", "figure"} ->
             IF imgName # <<>>
             THEN <<ScrapedSponsor(CleanSponsorName(imgName), logo, site, "", url)>>
             ELSE <<>>
        [] e.strategy = "card" ->
             IF e.context /\ e.text # <<>> /\ IsValidSponsorName(e.text)
             THEN <<ScrapedSponsor(CleanSponsorName(e.text), logo, site, "", url)>>
             ELSE <<>>
        [] e.strategy = "list" ->
             IF IsLabelText(e.text)
             THEN <<ScrapedSponsor(CleanSponsorName(e.text), logo, site, "", url)>>
             ELSE <<>>
        [] e.strategy = "heading" ->
             IF IsSponsorHeading(e.heading) /\ imgName # <<>>
             THEN <<ScrapedSponsor(CleanSponsorName(imgName), logo, site,
                                   HeadingTier(e.heading), url)>>
             ELSE <<>>
        [] e.strategy = "gridImg" ->
             IF imgName # <<>>
             THEN <<ScrapedSponsor(CleanSponsorName(imgName), logo, NoUrl, "", url)>>
             ELSE <<>>
        [] e.strategy = "gridLink" ->
             LET name == IF IsLabelText(e.text) THEN e.text ELSE imgName
             IN  IF name # <<>>
                 THEN <<ScrapedSponsor(CleanSponsorName(name), logo, site, "", url)>>
                 ELSE <<>>

\* deduplicateSponsors without the backfill of lines 1187-1195
Merge_KeepFirst(existing, s) == existing

\* a merge in which a later duplicate's populated field replaces the kept one
Merge_Overwrite(existing, s) ==
  [existing EXCEPT
     !.logoUrl    = IF s.logoUrl # NoUrl THEN s.logoUrl ELSE @,
     !.websiteUrl = IF s.websiteUrl # NoUrl THEN s.websiteUrl ELSE @,
     !.tier       = IF s.tier # "" THEN s.tier ELSE @]

\* lines 1186-1195: the kept entity, with its absent fields filled from `s`
Merge(existing, s) ==
  [existing EXCEPT
     !.logoUrl    = IF existing.logoUrl = NoUrl /\ s.logoUrl # NoUrl
                    THEN s.logoUrl ELSE @,
     !.websiteUrl = IF existing.websiteUrl = NoUrl /\ s.websiteUrl # NoUrl
                    THEN s.websiteUrl ELSE @,
     !.tier       = IF existing.tier = "" /\ s.tier # ""
                    THEN s.tier ELSE @]

\* deduplicateSponsors, lines 1176-1200: `seen` in insertion order
RECURSIVE DeduplicateSponsors(_)
DeduplicateSponsors(sponsors) ==
  IF sponsors = <<>> THEN <<>>
  ELSE LET seen == DeduplicateSponsors(DropLast(sponsors))
           s    == sponsors[Len(sponsors)]
           key  == Lower(s.name)
           hit  == {i \in 1..Len(seen) : Lower(seen[i].name) = key}
       IN  IF hit = {} THEN Append(seen, s)
           ELSE LET i == CHOOSE j \in hit : TRUE
                IN  [seen EXCEPT ![i] = Merge(seen[i], s)]

\* the final filter without the validity test of lines 1246-1248
PassesFinalFilter_LengthOnly(s) ==
  s.name # <<>> /\ CharLen(s.name) >= MIN_NAME_LENGTH
                /\ CharLen(s.name) <= MAX_NAME_LENGTH

\* the predicate of the filter of lines 1238-1254
PassesFinalFilter(s) ==
  /\ s.name # <<>>
  /\ CharLen(s.name) >= MIN_NAME_LENGTH
  /\ CharLen(s.name) <= MAX_NAME_LENGTH
  /\ IsValidSponsorName(CleanSponsorName(s.name))

\* lines 1238-1254: the filter, which rewrites the name of what it keeps
FinalFilter(sponsors) ==
  LET kept == SelectSeq(sponsors, PassesFinalFilter)
  IN  [i \in 1..Len(kept) |-> [kept[i] EXCEPT !.name = CleanSponsorName(kept[i].name)]]

\* A link of the homepage: its href and whether href or text includes one of
\* the sponsorKeywords (lines 214-217)
Link(href, relevant) == [href |-> href, relevant |-> relevant]

\* `fullUrl.startsWith(baseUrl)`, line 223, for a base URL without path
StartsWithBase(u, baseUrl) ==
  Len(u.host) >= Len(baseUrl.host) /\ SubSeq(u.host, 1, Len(baseUrl.host)) = baseUrl.host

\* `href.startsWith("/")`, line 223
StartsWithSlash(h) == h.kind \in {"relative", "protorel"}

\* the body of the loop of lines 208-233 for one link
AddSponsorPage(pages, l, baseUrl) ==
  IF l.href.kind # "none" /\ l.relevant /\ Resolves(l.href)
     /\ (StartsWithBase(NewUrl(l.href, baseUrl), baseUrl) \/ StartsWithSlash(l.href))
     /\ NewUrl(l.href, baseUrl) \notin Range(pages)
  THEN Append(pages, NewUrl(l.href, baseUrl))
  ELSE pages

RECURSIVE CollectSponsorPages(_, _)
CollectSponsorPages(links, baseUrl) ==
  IF links = <<>> THEN <<>>
  ELSE AddSponsorPage(CollectSponsorPages(DropLast(links), baseUrl),
                      links[Len(links)], baseUrl)

MAX_SPONSOR_PAGES == 5

\* The reply to a fetch of a page: rateLimitedFetch returned null ("null"),
\* response.text() threw ("textthrow"), or the HTML was read ("ok")
Home(kind, links) == [kind |-> kind, links |-> links]

\* findSponsorPages, lines 189-244
FindSponsorPages(baseUrl, reply) ==
  IF reply.kind # "ok" THEN <<>>
  ELSE LET found == CollectSponsorPages(reply.links, baseUrl)
           pages == IF baseUrl \notin Range(found) THEN <<baseUrl>> \o found ELSE found
       IN  Take(pages, MAX_SPONSOR_PAGES)

\* ScrapeResult, lines 1208-1212
ScrapeResult(sponsors, scrapedUrls, errors) ==
  [sponsors |-> sponsors, scrapedUrls |-> scrapedUrls, errors |-> errors]

----------------------------------------------------------------------------
(* Sponsor scraper: the inputs explored *)

ClubHost == <<"club", "com", "au">>

AcmeHost == <<"acme", "com">>

AcmeFoodsHost == <<"www", "acme-foods", "com", "au">>

\* websiteUrl: absent (""), a URL with or without trailing slash, or a string
\* that `new URL` rejects
SiteUrl(given, parsable, host, slash) ==
  [given |-> given, parsable |-> parsable, host |-> host, slash |-> slash]

SiteUrls ==
  {SiteUrl(FALSE, FALSE, <<>>, FALSE), SiteUrl(TRUE, FALSE, <<>>, FALSE),
   SiteUrl(TRUE, TRUE, ClubHost, FALSE), SiteUrl(TRUE, TRUE, ClubHost, TRUE)}

\* lines 1221-1223
BaseUrl(w) == Url(w.host, "")

LinkLists ==
  {<<>>,
   <<Link(Href("relative", <<>>, "/sponsors"), TRUE),
     Link(Href("relative", <<>>, "/news"), FALSE),
     Link(Href("absolute", AcmeHost, "/sponsors"), TRUE),
     Link(Href("invalid", <<>>, "http://"), TRUE),
     Link(Href("relative", <<>>, "/sponsors"), TRUE)>>,
   <<Link(Href("relative", <<>>, "/"), TRUE),
     Link(Href("protorel", AcmeHost, "/partners"), TRUE),
     Link(Href("absolute", ClubHost, "/partners"), TRUE),
     Link(Href("relative", <<>>, "/supporters"), TRUE),
     Link(Href("relative", <<>>, "/donors"), TRUE),
     Link(Href("relative", <<>>, "/corporate"), TRUE)>>}

HomeReplies ==
  {Home("null", <<>>), Home("textthrow", <<>>)} \cup {Home("ok", ls) : ls \in LinkLists}

PageReplyKinds == {"null", "textthrow", "ok"}

Elements ==
  {Element("section", <<>>, FALSE, {}, TRUE,
           Img(<<"Gold", "Sponsor", "Logo", "of", "ACME", "Pty", "Ltd">>, <<>>, NoHref,
               Src(TRUE, <<"logo">>, "/img/logo-150x150.jpg"))),
   Element("list", <<"Acme", "Logo", "Sponsor">>, FALSE, {}, FALSE,
           Img(<<>>, <<>>, Href("absolute", AcmeHost, "/"), NoSrc)),
   Element("list", <<"Acme">>, FALSE, {}, TRUE,
           Img(<<>>, <<>>, NoHref, Src(TRUE, <<"acme">>, "/img/acme.png"))),
   Element("list", <<"Gold", "Sponsor">>, FALSE, {}, FALSE, NoImg),
   Element("heading", <<>>, FALSE, {"gold", "sponsor"}, TRUE,
           Img(<<"Acme", "Foods">>, <<>>, Href("relative", <<>>, "/acme"),
               Src(TRUE, <<"logo">>, "/img/af.png"))),
   Element("gridLink", <<"Logo">>, FALSE, {}, FALSE,
           Img(<<>>, <<>>, Href("absolute", AcmeFoodsHost, "/"), NoSrc)),
   Element("card", <<"ACME">>, TRUE, {}, TRUE,
           Img(<<>>, <<>>, Href("absolute", AcmeHost, "/"),
               Src(TRUE, <<"logo">>, "/img/card.png"))),
   Element("card", <<"Acme", "Foods">>, FALSE, {}, FALSE, NoImg),
   Element("composer", <<>>, FALSE, {}, TRUE,
           Img(<<>>, <<"Logo">>, Href("absolute", AcmeFoodsHost, "/"),
               Src(TRUE, <<"logo">>, "/img/vc.png"))),
   Element("gridImg", <<>>, FALSE, {}, TRUE,
           Img(<<"cmyk">>, <<>>, NoHref, Src(TRUE, <<"acme", "foods">>, "/img/acme-foods.png"))),
   Element("figure", <<>>, FALSE, {}, TRUE,
           Img(<<"qmp0samij3o2ocrz">>, <<>>, Href("absolute", <<"facebook", "com">>, "/club"),
               Src(TRUE, <<"r3f6csp8h866">>, "/img/r3f6csp8h866.png")))}

\* the number of elements the strategies match in one run
MaxMatches == 2

----------------------------------------------------------------------------
(* Contact discovery: the pure helpers *)

\* A website as stored for a sponsor.  `given` is false for null, undefined and
\* "", `parsable` says whether new URL() accepts it (with https:// put in front
\* when it does not start with http), and `host` is its host without a www,
\* in parts as for an email's domain.
Website(given, scheme, www, host, parsable) ==
  [given |-> given, scheme |-> scheme, www |-> www, host |-> host,
   parsable |-> parsable]

NoWebsite == Website(FALSE, "", FALSE, <<>>, FALSE)

\* extractDomain: the host as a one-word domain, <<>> for null or ""
ExtractDomain(w) ==
  IF ~w.given THEN <<>>
  ELSE w.host

LEGAL_SUFFIXES == {"pty", "ltd", "limited", "inc", "corp", "co", "australia", "aus"}

MIN_SLUG_LENGTH == 3

\* guessDomain: the slug of the company name with ".com.au", <<>> for null
GuessDomain(name) ==
  LET decoded  == CleanAndDecodeText(name)
      lowered  == Lower(decoded)
      stripped == IF Len(lowered) > 1 /\ lowered[Len(lowered)] \in LEGAL_SUFFIXES
                  THEN SubSeq(lowered, 1, Len(lowered) - 1)
                  ELSE lowered
  IN  IF SumLen(stripped) < MIN_SLUG_LENGTH THEN <<>>
      ELSE stripped \o <<".com.au">>

\* isValidBusinessEmail
IsValidBusinessEmail(e) ==
  /\ e # NoEmail
  /\ EmailDomain(e) \notin PERSONAL_EMAIL_DOMAINS
  /\ ~\E skip \in SKIP_EMAIL_PREFIXES : LocalIncludes(EmailLocal(e), skip)
  /\ ~(LocalInfo[EmailLocal(e)].len < 2 \/ SumLen(EmailDomain(e)) < 4)

\* the first occurrences of s, in order (the seenEmails set)
RECURSIVE FirstOccurrences(_)
FirstOccurrences(s) ==
  IF s = <<>> THEN <<>>
  ELSE LET init == FirstOccurrences(SubSeq(s, 1, Len(s) - 1))
           last == s[Len(s)]
       IN  IF last \in Range(init) THEN init ELSE Append(init, last)

\* extractEmailsFromHTML: page.emails are the addresses of the page in the order
\* mailto links, body text, JSON-LD
ExtractEmailsFromHTML(page) ==
  FirstOccurrences(SelectSeq(page.emails, IsValidBusinessEmail))

\* EMAIL_PRIORITY_ORDER.findIndex((p) => prefix.includes(p)), 0 for -1
PriorityIndex(local) ==
  LET hits == {i \in 1..Len(EMAIL_PRIORITY_ORDER) :
                 LocalIncludes(local, EMAIL_PRIORITY_ORDER[i])}
  IN  IF hits = {} THEN 0 ELSE CHOOSE i \in hits : \A j \in hits : i <= j

\* the comparator of prioritizeEmails is negative
EmailBefore(a, b) ==
  LET ia == PriorityIndex(EmailLocal(a))
      ib == PriorityIndex(EmailLocal(b))
  IN  IF ia # 0 /\ ib # 0 THEN ia < ib
      ELSE ia # 0

\* prioritizeEmails: the stable sort by that comparator
RECURSIVE PrioritizeEmails(_)
PrioritizeEmails(es) ==
  IF es = <<>> THEN <<>>
  ELSE LET init == PrioritizeEmails(SubSeq(es, 1, Len(es) - 1))
           x    == es[Len(es)]
           F(y) == ~EmailBefore(x, y)
           G(y) == EmailBefore(x, y)
       IN  SelectSeq(init, F) \o <<x>> \o SelectSeq(init, G)

MAX_SCRAPED_EMAILS == 3

\* the contacts of a page without the slice(0, 3) of line 247
PageContacts_All(page) ==
  LET prioritized == PrioritizeEmails(ExtractEmailsFromHTML(page))
  IN  [i \in 1..Len(prioritized) |->
         Contact(prioritized[i], IF i = 1 THEN page.phone ELSE "", "",
                 "website", "high", "true")]

\* the contacts of a page rated medium instead of high
PageContacts_Medium(page) ==
  LET prioritized == Take(PrioritizeEmails(ExtractEmailsFromHTML(page)),
                          MAX_SCRAPED_EMAILS)
  IN  [i \in 1..Len(prioritized) |->
         Contact(prioritized[i], IF i = 1 THEN page.phone ELSE "", "",
                 "website", "medium", "true")]

\* the contacts pushed for the first page with emails (lines 244-262)
PageContacts(page) ==
  LET prioritized == Take(PrioritizeEmails(ExtractEmailsFromHTML(page)),
                          MAX_SCRAPED_EMAILS)
  IN  [i \in 1..Len(prioritized) |->
         Contact(prioritized[i], IF i = 1 THEN page.phone ELSE "", "",
                 "website", "high", "true")]

\* One entry of data.data.emails of the Hunter domain search
HunterEmail(value, confidence, department, verification) ==
  [value |-> value, confidence |-> confidence, department |-> department,
   verification |-> verification]

PRIORITY_DEPTS == <<"marketing", "executive", "sales", "management">>

\* priorityDepts.indexOf(department || ""), 0 for -1
DeptIndex(d) ==
  LET hits == {i \in 1..Len(PRIORITY_DEPTS) : PRIORITY_DEPTS[i] = d}
  IN  IF hits = {} THEN 0 ELSE CHOOSE i \in hits : TRUE

\* the comparator of the sort in findEmailViaHunter is negative
HunterBefore(a, b) ==
  LET ia == DeptIndex(a.department)
      ib == DeptIndex(b.department)
  IN  IF ia # 0 /\ ib # 0 THEN ia < ib
      ELSE IF ia # 0 THEN TRUE
      ELSE IF ib # 0 THEN FALSE
      ELSE b.confidence < a.confidence

RECURSIVE SortHunter(_)
SortHunter(es) ==
  IF es = <<>> THEN <<>>
  ELSE LET init == SortHunter(SubSeq(es, 1, Len(es) - 1))
           x    == es[Len(es)]
           F(y) == ~HunterBefore(x, y)
           G(y) == HunterBefore(x, y)
       IN  SelectSeq(init, F) \o <<x>> \o SelectSeq(init, G)

HIGH_CONFIDENCE_ABOVE == 80

MEDIUM_CONFIDENCE_ABOVE == 50

MAX_API_CONTACTS == 3

ConfidenceBucket(n) ==
  IF n > HIGH_CONFIDENCE_ABOVE THEN "high"
  ELSE IF n > MEDIUM_CONFIDENCE_ABOVE THEN "medium"
  ELSE "low"

\* findEmailViaHunter.  reply is "throw" (fetch or json() rejects, timeout),
\* "notok" (a non-2xx response) or "ok" with the entries of data.data.emails.
\* Every exception is caught inside, so the result is always a list.
FindEmailViaHunter(w, key, reply) ==
  IF ~key THEN <<>>
  ELSE IF ExtractDomain(w) = <<>> THEN <<>>
  ELSE IF reply.kind \in {"throw", "notok"} THEN <<>>
  ELSE LET top == Take(SortHunter(reply.emails), MAX_API_CONTACTS)
       IN  [i \in 1..Len(top) |->
              Contact(top[i].value, "", "", "api",
                      ConfidenceBucket(top[i].confidence),
                      IF top[i].verification = "valid" THEN "true" ELSE "false")]

\* verifyEmailWithHunter with the exception propagating instead of being caught
VerifyEmailWithHunter_Uncaught(key, reply) ==
  IF ~key THEN "false"
  ELSE IF reply = "throw" THEN "threw"
  ELSE IF reply \in {"valid", "accept_all"} THEN "true"
  ELSE "false"

\* verifyEmailWithHunter: "true" or "false".  reply is "throw", "notok" or the
\* data.status of the verifier's answer.
VerifyEmailWithHunter(key, reply) ==
  IF ~key THEN "false"
  ELSE IF reply = "throw" THEN "false"
  ELSE IF reply = "notok" THEN "false"
  ELSE IF reply \in {"valid", "accept_all"} THEN "true"
  ELSE "false"

GUESS_PATTERNS == <<"info", "contact", "hello", "enquiries", "admin">>

\* patterns.slice(0, 2): the guesses that are verified
VERIFIED_GUESSES == 2

\* The verification loop of guessEmails from guess i on: the contacts pushed,
\* the addresses sent to the verifier, and whether an exception escaped.
RECURSIVE GuessLoop(_, _, _, _)
GuessLoop(domain, key, replies, i) ==
  IF i > Min2(VERIFIED_GUESSES, Len(GUESS_PATTERNS))
  THEN [contacts |-> <<>>, verified |-> <<>>, threw |-> FALSE]
  ELSE LET email   == MkEmail(GUESS_PATTERNS[i], domain)
           isValid == VerifyEmailWithHunter(key, replies[i])
           rest    == GuessLoop(domain, key, replies, i + 1)
       IN  IF isValid = "threw"
           THEN [contacts |-> <<>>, verified |-> <<email>>, threw |-> TRUE]
           ELSE IF isValid = "true"
           THEN [contacts |-> <<Contact(email, "", "", "pattern", "medium", "true")>>,
                 verified |-> <<email>>, threw |-> FALSE]
           ELSE [contacts |-> rest.contacts, verified |-> <<email>> \o rest.verified,
                 threw |-> rest.threw]

\* guessEmails without the fallback guess of lines 481-489
GuessEmails_NoFallback(domain, key, replies) ==
  IF key THEN GuessLoop(domain, key, replies, 1)
  ELSE [contacts |-> <<>>, verified |-> <<>>, threw |-> FALSE]

\* guessEmails with its fallback guess marked as verified
GuessEmails_FallbackVerified(domain, key, replies) ==
  LET loop == IF key THEN GuessLoop(domain, key, replies, 1)
              ELSE [contacts |-> <<>>, verified |-> <<>>, threw |-> FALSE]
  IN  IF loop.threw THEN loop
      ELSE IF loop.contacts = <<>>
      THEN [loop EXCEPT !.contacts =
              <<Contact(MkEmail("info", domain), "", "", "pattern", "low", "true")>>]
      ELSE loop

\* guessEmails, lines 457-492
GuessEmails(domain, key, replies) ==
  LET loop == IF key THEN GuessLoop(domain, key, replies, 1)
              ELSE [contacts |-> <<>>, verified |-> <<>>, threw |-> FALSE]
  IN  IF loop.threw THEN loop
      ELSE IF loop.contacts = <<>>
      THEN [loop EXCEPT !.contacts =
              <<Contact(MkEmail("info", domain), "", "", "pattern", "low", "false")>>]
      ELSE loop

\* contact.email || contact.linkedIn || ""
ContactKey(c) == IF c.email # NoEmail THEN c.email
                 ELSE IF c.linkedIn # "" THEN <<c.linkedIn>>
                 ELSE <<>>

\* a deduplication that keeps the last contact of every key
RECURSIVE DeduplicateContacts_KeepLast(_)
DeduplicateContacts_KeepLast(cs) ==
  IF cs = <<>> THEN <<>>
  ELSE LET rest == DeduplicateContacts_KeepLast(Tail(cs))
           c    == Head(cs)
       IN  IF ContactKey(c) = <<>> \/ \E d \in Range(rest) : ContactKey(d) = ContactKey(c)
           THEN rest
           ELSE <<c>> \o rest

\* a deduplication that keeps the contacts without a key (no `!key` test)
RECURSIVE DeduplicateContacts_KeepKeyless(_)
DeduplicateContacts_KeepKeyless(cs) ==
  IF cs = <<>> THEN <<>>
  ELSE LET init == DeduplicateContacts_KeepKeyless(SubSeq(cs, 1, Len(cs) - 1))
           c    == cs[Len(cs)]
       IN  IF ContactKey(c) # <<>> /\ \E d \in Range(init) : ContactKey(d) = ContactKey(c)
           THEN init
           ELSE Append(init, c)

\* deduplicateContacts, lines 597-605
RECURSIVE DeduplicateContacts(_)
DeduplicateContacts(cs) ==
  IF cs = <<>> THEN <<>>
  ELSE LET init == DeduplicateContacts(SubSeq(cs, 1, Len(cs) - 1))
           c    == cs[Len(cs)]
       IN  IF ContactKey(c) = <<>> \/ \E d \in Range(init) : ContactKey(d) = ContactKey(c)
           THEN init
           ELSE Append(init, c)

\* contacts.some((c) => c.email && c.confidence === "high")
HasHighConfidenceEmail(cs) ==
  \E c \in Range(cs) : HasEmail(c) /\ c.confidence = "high"

\* a check for any email that only looks at high-confidence contacts
HasAnyEmail_OnlyHigh(cs) ==
  \E c \in Range(cs) : HasEmail(c) /\ c.confidence = "high"

\* contacts.some((c) => c.email)
HasAnyEmail(cs) == \E c \in Range(cs) : HasEmail(c)

----------------------------------------------------------------------------
(* The contacts-discover handler: best contact and update rule *)

\* needle occurs in hay as a run of consecutive parts (String.includes)
SeqIncludes(hay, needle) ==
  \E i \in 0..(Len(hay) - Len(needle)) :
     SubSeq(hay, i + 1, i + Len(needle)) = needle

\* contacts.find(p), NoContact for undefined
FirstHigh(cs) ==
  LET hits == {i \in 1..Len(cs) : cs[i].confidence = "high" /\ HasEmail(cs[i])}
  IN  IF hits = {} THEN NoContact ELSE cs[CHOOSE i \in hits : \A j \in hits : i <= j]

FirstMedium(cs) ==
  LET hits == {i \in 1..Len(cs) : cs[i].confidence = "medium" /\ HasEmail(cs[i])}
  IN  IF hits = {} THEN NoContact ELSE cs[CHOOSE i \in hits : \A j \in hits : i <= j]

FirstWithEmail(cs) ==
  LET hits == {i \in 1..Len(cs) : HasEmail(cs[i])}
  IN  IF hits = {} THEN NoContact ELSE cs[CHOOSE i \in hits : \A j \in hits : i <= j]

\* best-contact selection that takes the first contact with an email
SelectBestContact_FirstEmail(cs) == FirstWithEmail(cs)

\* const bestContact = find(high) || find(medium) || find(any email)
SelectBestContact(cs) ==
  IF FirstHigh(cs) # NoContact THEN FirstHigh(cs)
  ELSE IF FirstMedium(cs) # NoContact THEN FirstMedium(cs)
  ELSE FirstWithEmail(cs)

\* handleDiscoverContact of the sponsors page: the contact it puts into
\* discoveredContacts for a response, NoContact when it sets none
HandleDiscoverContact(ok, cs) ==
  IF ~ok \/ cs = <<>> THEN NoContact
  ELSE IF FirstHigh(cs) # NoContact THEN FirstHigh(cs)
  ELSE FirstWithEmail(cs)

\* an update rule that writes whenever the best contact has an email
ShouldUpdate_AnyEmail(best, sp) == HasEmail(best)

\* shouldUpdate of the handler
ShouldUpdate(best, sp) ==
  /\ HasEmail(best)
  /\ \/ sp.contactEmail = NoEmail
     \/ best.confidence = "high"
        /\ ~SeqIncludes(sp.contactEmail, EmailDomain(best.email))
     \/ best.source \in {"website", "api"}

----------------------------------------------------------------------------
(* Contact discovery: the inputs and the replies of the outside world *)

AcmeDomain == <<"acme", ".com.au">>

CompanyNames ==
  {<<"Acme", "Pty", "Ltd">>, <<"AB">>, <<"AB", "Pty">>, <<"Acme%2520Foods">>}

Websites ==
  {NoWebsite,
   Website(TRUE, "https://", TRUE, AcmeDomain, TRUE),
   Website(TRUE, "", FALSE, AcmeDomain, TRUE),
   Website(TRUE, "", FALSE, <<"not a url">>, FALSE),
   Website(TRUE, "https://", FALSE, <<>>, FALSE)}

StoredEmails == {NoEmail, MkEmail("sales", AcmeDomain), MkEmail("joe", <<"gmail.com">>)}

\* The reply to the fetch of one contact page: the fetch rejects or times out
\* ("throw"), the response is not 2xx ("notok"), or the page is read ("ok").
Page(kind, emails, phone) == [kind |-> kind, emails |-> emails, phone |-> phone]

PageReplies ==
  {Page("throw", <<>>, ""),
   Page("notok", <<>>, ""),
   Page("ok", <<>>, "0391234567"),
   Page("ok", <<MkEmail("joe", <<"gmail.com">>), MkEmail("noreply", AcmeDomain),
                MkEmail("a", AcmeDomain), MkEmail("automation", AcmeDomain)>>, ""),
   Page("ok", <<MkEmail("info", AcmeDomain)>>, "0391234567"),
   Page("ok", <<MkEmail("jane.doe", AcmeDomain), MkEmail("info", AcmeDomain),
                MkEmail("info", AcmeDomain), MkEmail("sales", AcmeDomain),
                MkEmail("marketing", AcmeDomain)>>, "")}

Social(kind, links) == [kind |-> kind, links |-> links]

SocialReplies ==
  {Social("throw", <<>>), Social("notok", <<>>), Social("ok", <<>>),
   Social("ok", <<"linkedin.com/company/acme">>),
   Social("ok", <<"linkedin.com/company/acme", "linkedin.com/in/jane">>)}

HunterEntries ==
  {HunterEmail(MkEmail("sales", AcmeDomain), 30, "marketing", "valid"),
   HunterEmail(MkEmail("info", AcmeDomain), 95, "", "invalid"),
   HunterEmail(MkEmail("jane.doe", AcmeDomain), 60, "sales", "valid"),
   HunterEmail(MkEmail("info", AcmeDomain), 75, "", "valid"),
   \* an entry whose `value` is missing from the JSON
   HunterEmail(NoEmail, 70, "executive", "valid")}

\* the most entries a modelled Hunter answer holds
MaxApiEmails == 4

Hunter(kind, emails) == [kind |-> kind, emails |-> emails]

HunterReplies ==
  {Hunter("throw", <<>>), Hunter("notok", <<>>)}
    \cup {Hunter("ok", es) : es \in SeqsNoRep(HunterEntries, MaxApiEmails)}

VerifyReplies == {"throw", "notok", "valid", "accept_all", "invalid"}

\* what stops the handler before discovery starts, or "ok"
Gates == {"unauthorized", "nouser", "limit", "badbody", "nosponsor", "ok"}

GateStatus(g) ==
  CASE g = "unauthorized" -> 401
    [] g = "nouser"       -> 404
    [] g = "limit"        -> 403
    [] g = "badbody"      -> 400
    [] g = "nosponsor"    -> 404
    [] OTHER              -> 0

----------------------------------------------------------------------------
(* Contact discovery: the state machine *)

----------------------------------------------------------------------------
(* rateLimitedFetch, src/unnamed/part_013 lines 136-184, with the module-level
   map lastRequestTime of line 19, called by several callers of one process *)

\* src/src/lib/constants.ts
SCRAPE_DELAY_MS == 1000

\* the clock advances in steps of half the delay
Quantum == SCRAPE_DELAY_MS \div 2

\* how often the clock advances in a run
MaxTicks == 4

\* Date.now() at the start: later than SCRAPE_DELAY_MS after the epoch
StartTime == 2 * SCRAPE_DELAY_MS

\* the callers whose calls may be in flight together, in the order in which
\* they call
Callers == {1, 2, 3}

Domains == {"club.com.au"}

\* the url argument: its hostname, its scheme, and whether `new URL` accepts it
FetchUrl(domain, scheme, parsable) ==
  [domain |-> domain, scheme |-> scheme, parsable |-> parsable]

FetchUrls ==
  {FetchUrl("club.com.au", "https", TRUE), FetchUrl("club.com.au", "http", TRUE),
   FetchUrl("", "", FALSE)}

\* what a fetch does: a 2xx response, another response, a rejection, a timeout
FetchOutcomes == {"ok2xx", "non2xx", "exception", "timeout"}

\* lines 153-156: how many URLs are tried
UrlsToTry(url) == IF url.scheme = "http" THEN 2 ELSE 1

\* rateLimitedFetch that does not wait
WaitMs_None(timeSinceLastRequest) == 0

\* line 146: the delay given to setTimeout
WaitMs(timeSinceLastRequest) == SCRAPE_DELAY_MS - timeSinceLastRequest

\* rateLimitedFetch that returns any response
ReturnsResponse_Any(outcome) == outcome \in {"ok2xx", "non2xx"}

\* lines 170-172: `response.ok`
ReturnsResponse(outcome) == outcome = "ok2xx"

\* One call of rateLimitedFetch:
\*   pc        "idle", "sleeping" (the await of line 145), "awaiting" (the await
\*             of line 160), "done"
\*   wakeAt    while sleeping: when the timer of line 145 is due
\*   slept     the call waited at line 145
\*   recorded  the time written at line 150, which is when the first request
\*             goes out at line 160 (0: nothing written)
\*   tries     requests sent
\*   last      outcome of the last request
\*   result    "pending", "response", "null" or "threw"
\*   after     the callers whose calls had returned when this one began
IdleCall ==
  [pc |-> "idle", url |-> FetchUrl("", "", FALSE), wakeAt |-> 0, recorded |-> 0,
   slept |-> FALSE, tries |-> 0, last |-> "none", result |-> "pending", after |-> {}]

RateIdle ==
  /\ now = StartTime
  /\ ticks = 0
  /\ lastRequestTime = [d \in Domains |-> 0]
  /\ rcalls = [c \in Callers |-> IdleCall]

----------------------------------------------------------------------------
(* The request handler and the pipelines as state machines *)

\* no helper is called on its own in this run
PureIdle == fpc = "off" /\ fin = <<>> /\ fout = <<>>

\* scrapeClubSponsors is not called in this run
ScrapeIdle ==
  /\ spc = "off"
  /\ websiteUrl = SiteUrl(FALSE, FALSE, <<>>, FALSE)
  /\ sponsorPages = <<>>
  /\ pageIdx = 1
  /\ matched = [count |-> 0, rank |-> 1]
  /\ pagesRead = 0
  /\ fetchLog = <<>>
  /\ allSponsors = <<>>
  /\ sresult = ScrapeResult(<<>>, <<>>, <<>>)

\* the contacts-discover handler is not called in this run
DiscoverIdle ==
  /\ hpc = "off"
  /\ httpStatus = 0
  /\ sponsor = [companyName |-> <<>>, website |-> NoWebsite, contactEmail |-> NoEmail,
                contactPhone |-> "", emailVerified |-> FALSE]
  /\ userReveals = 0
  /\ bestContact = NoContact
  /\ dpc = "idle"
  /\ hasApiKey = FALSE
  /\ pathIdx = 1
  /\ pageLog = <<>>
  /\ contacts = <<>>
  /\ websiteData = [hasContactPage |-> FALSE, hasSocialLinks |-> FALSE]
  /\ calls = <<>>
  /\ apiLog = [valid |-> {}, verifier |-> {}]
  /\ dresult = <<>>

Call(fn, seen) == [fn |-> fn, seen |-> seen]

InitDiscover ==
  /\ PureIdle
  /\ ScrapeIdle
  /\ RateIdle
  /\ hpc = "idle"
  /\ httpStatus = 0
  /\ sponsor \in [companyName : CompanyNames, website : Websites,
                  contactEmail : StoredEmails, contactPhone : {""},
                  emailVerified : {FALSE}]
  /\ userReveals = 0
  /\ bestContact = NoContact
  /\ dpc = "idle"
  /\ hasApiKey \in BOOLEAN
  /\ pathIdx = 1
  /\ pageLog = <<>>
  /\ contacts = <<>>
  /\ websiteData = [hasContactPage |-> FALSE, hasSocialLinks |-> FALSE]
  /\ calls = <<>>
  /\ apiLog = [valid |-> {}, verifier |-> {}]
  /\ dresult = <<>>

\* POST, lines 13-70: the checks before discovery, then the call of
\* discoverContacts(sponsor.companyName, sponsor.website || undefined), which
\* runs to its first await.
PostStart ==
  /\ hpc = "idle"
  /\ \E g \in Gates :
       IF g = "ok"
       THEN /\ hpc' = "discovering"
            /\ dpc' = IF sponsor.website.given THEN "scrape" ELSE "strategy2"
            /\ UNCHANGED httpStatus
       ELSE /\ hpc' = "responded"
            /\ httpStatus' = GateStatus(g)
            /\ UNCHANGED dpc
  /\ UNCHANGED <<svars, rvars, pvars>>
  /\ UNCHANGED <<sponsor, userReveals, bestContact, hasApiKey, pathIdx, pageLog, contacts,
                 websiteData, calls, apiLog, dresult>>

\* One iteration of the loop of scrapeWebsiteForContacts (lines 228-269) with the
\* return into discoverContacts (lines 146-150) when the loop ends.
ScrapePage ==
  /\ dpc = "scrape"
  /\ \E reply \in PageReplies :
       /\ ~sponsor.website.parsable => reply.kind = "throw"
       /\ LET found == IF reply.kind = "ok" THEN ExtractEmailsFromHTML(reply) ELSE <<>>
          IN  /\ pageLog' = IF sponsor.website.parsable
                            THEN Append(pageLog, [path |-> CONTACT_PAGE_PATTERNS[pathIdx],
                                                  found |-> found])
                            ELSE pageLog
              /\ IF found # <<>>
                 THEN /\ contacts' = contacts \o PageContacts(reply)
                      /\ websiteData' = [websiteData EXCEPT !.hasContactPage = TRUE]
                      /\ dpc' = "social"
                      /\ UNCHANGED pathIdx
                 ELSE /\ UNCHANGED <<contacts, websiteData>>
                      /\ IF pathIdx < Len(CONTACT_PAGE_PATTERNS)
                         THEN /\ pathIdx' = pathIdx + 1
                              /\ UNCHANGED dpc
                         ELSE /\ dpc' = "social"
                              /\ UNCHANGED pathIdx
  /\ UNCHANGED <<svars, rvars, pvars>>
  /\ UNCHANGED <<hpc, httpStatus, sponsor, userReveals, bestContact, hasApiKey,
                 calls, apiLog, dresult>>

\* scrapeSocialLinks and lines 153-163
ScrapeSocialLinks ==
  /\ dpc = "social"
  /\ \E reply \in SocialReplies :
       /\ ~sponsor.website.parsable => reply.kind = "throw"
       /\ LET links == IF reply.kind = "ok" THEN reply.links ELSE <<>>
          IN  /\ contacts' = contacts \o
                   [i \in 1..Len(links) |->
                      Contact(NoEmail, "", links[i], "website", "medium", "undefined")]
              /\ websiteData' =
                   IF links # <<>> THEN [websiteData EXCEPT !.hasSocialLinks = TRUE]
                   ELSE websiteData
  /\ dpc' = "strategy2"
  /\ UNCHANGED <<svars, rvars, pvars>>
  /\ UNCHANGED <<hpc, httpStatus, sponsor, userReveals, bestContact, hasApiKey,
                 pathIdx, pageLog, calls, apiLog, dresult>>

\* the addresses the domain search of findEmailViaHunter reported with
\* verification.status "valid" (lines 414-432), when the request was made
ReportedValid(w, reply) ==
  IF ExtractDomain(w) = <<>> \/ reply.kind # "ok" THEN {}
  ELSE {e.value : e \in {x \in Range(reply.emails) : x.verification = "valid"}}

\* the condition of line 176 without its check for a high-confidence email
HunterDue_NoConfidenceCheck == hasApiKey /\ sponsor.website.given

\* the condition of line 176
HunterDue ==
  ~HasHighConfidenceEmail(contacts) /\ hasApiKey /\ sponsor.website.given

\* Strategy 2 taken: lines 176-186
CallHunter ==
  /\ dpc = "strategy2"
  /\ HunterDue
  /\ \E reply \in HunterReplies :
       /\ contacts' = contacts \o FindEmailViaHunter(sponsor.website, hasApiKey, reply)
       /\ apiLog' = [apiLog EXCEPT !.valid = ReportedValid(sponsor.website, reply)]
  /\ calls' = Append(calls, Call("findEmailViaHunter", contacts))
  /\ dpc' = "strategy3"
  /\ UNCHANGED <<svars, rvars, pvars>>
  /\ UNCHANGED <<hpc, httpStatus, sponsor, userReveals, bestContact, hasApiKey,
                 pathIdx, pageLog, websiteData, dresult>>

\* Strategy 2 skipped
SkipHunter ==
  /\ dpc = "strategy2"
  /\ ~HunterDue
  /\ dpc' = "strategy3"
  /\ UNCHANGED <<svars, rvars, pvars>>
  /\ UNCHANGED <<hpc, httpStatus, sponsor, userReveals, bestContact, hasApiKey,
                 pathIdx, pageLog, contacts, websiteData, calls, apiLog, dresult>>

\* the domain to guess for without the company-name branch of lines 200-207
GuessTarget_SiteOnly == ExtractDomain(sponsor.website)

\* the domain Strategy 3 guesses for: extractDomain(website), else
\* guessDomain(decodedCompanyName); <<>> when neither gives one
GuessTarget ==
  IF ExtractDomain(sponsor.website) # <<>> THEN ExtractDomain(sponsor.website)
  ELSE GuessDomain(CleanAndDecodeText(sponsor.companyName))

\* the condition of line 192 with a domain to guess for
GuessDue == ~HasAnyEmail(contacts) /\ GuessTarget # <<>>

\* Strategy 3 taken (lines 192-208), then deduplicate and return (lines 211-212)
GuessAndReturn ==
  /\ dpc = "strategy3"
  /\ GuessDue
  /\ calls' = Append(calls, Call("guessEmails", contacts))
  /\ \E replies \in [1..VERIFIED_GUESSES -> VerifyReplies] :
       LET g == GuessEmails(GuessTarget, hasApiKey, replies)
       IN  /\ apiLog' = [apiLog EXCEPT !.verifier =
                           {<<g.verified[i], replies[i]>> : i \in 1..Len(g.verified)}]
           /\ IF g.threw
              THEN /\ dpc' = "threw"
                   /\ UNCHANGED <<contacts, dresult>>
              ELSE /\ contacts' = contacts \o g.contacts
                   /\ dresult' = DeduplicateContacts(contacts')
                   /\ dpc' = "returned"
  /\ UNCHANGED <<svars, rvars, pvars>>
  /\ UNCHANGED <<hpc, httpStatus, sponsor, userReveals, bestContact, hasApiKey,
                 pathIdx, pageLog, websiteData>>

\* Strategy 3 skipped, then deduplicate and return
ReturnWithoutGuess ==
  /\ dpc = "strategy3"
  /\ ~GuessDue
  /\ dresult' = DeduplicateContacts(contacts)
  /\ dpc' = "returned"
  /\ UNCHANGED <<svars, rvars, pvars>>
  /\ UNCHANGED <<hpc, httpStatus, sponsor, userReveals, bestContact, hasApiKey,
                 pathIdx, pageLog, contacts, websiteData, calls, apiLog>>

\* POST, lines 73-132: pick the best contact, update the sponsor, count the
\* reveal, respond.  dbFail names the prisma call that rejects, if any.
PostFinish ==
  /\ hpc = "discovering"
  /\ dpc \in {"returned", "threw"}
  /\ hpc' = "responded"
  /\ IF dpc = "threw"
     THEN /\ httpStatus' = 500
          /\ UNCHANGED <<sponsor, userReveals, bestContact>>
     ELSE \E dbFail \in {"none", "update", "increment"} :
            LET best   == IF dresult # <<>> THEN SelectBestContact(dresult) ELSE NoContact
                update == dresult # <<>> /\ ShouldUpdate(best, sponsor)
            IN  /\ bestContact' = best
                /\ sponsor' =
                     IF update /\ dbFail # "update"
                     THEN [sponsor EXCEPT
                             !.contactEmail = best.email,
                             !.contactPhone = IF best.phone # "" THEN best.phone ELSE @,
                             !.emailVerified = (best.verified = "true")]
                     ELSE sponsor
                /\ userReveals' =
                     IF dbFail = "increment" \/ (update /\ dbFail = "update")
                     THEN userReveals ELSE userReveals + 1
                /\ httpStatus' =
                     IF dbFail = "increment" \/ (update /\ dbFail = "update")
                     THEN 500 ELSE 200
  /\ UNCHANGED <<svars, rvars, pvars>>
  /\ UNCHANGED <<dpc, hasApiKey, pathIdx, pageLog, contacts, websiteData, calls, apiLog,
                 dresult>>

NextDiscover ==
  \/ PostStart
  \/ ScrapePage
  \/ ScrapeSocialLinks
  \/ CallHunter
  \/ SkipHunter
  \/ GuessAndReturn
  \/ ReturnWithoutGuess
  \/ PostFinish

SpecDiscover == InitDiscover /\ [][NextDiscover]_vars

----------------------------------------------------------------------------
(* scrapeClubSponsors as a state machine *)

InitScrape ==
  /\ PureIdle
  /\ DiscoverIdle
  /\ RateIdle
  /\ spc = "idle"
  /\ websiteUrl \in SiteUrls
  /\ sponsorPages = <<>>
  /\ pageIdx = 1
  /\ matched = [count |-> 0, rank |-> 1]
  /\ pagesRead = 0
  /\ fetchLog = <<>>
  /\ allSponsors = <<>>
  /\ sresult = ScrapeResult(<<>>, <<>>, <<>>)

\* scrapeClubSponsors, lines 1208-1227: the empty-URL return, else
\* findSponsorPages with the reply to the fetch of the homepage
\* (rateLimitedFetch returns null for a URL it cannot parse)
ScrapeStart ==
  /\ spc = "idle"
  /\ IF ~websiteUrl.given
     THEN /\ sresult' = ScrapeResult(<<>>, <<>>, <<"No website URL provided">>)
          /\ spc' = "returned"
          /\ UNCHANGED <<sponsorPages, pagesRead, fetchLog>>
     ELSE \E reply \in HomeReplies :
            /\ ~websiteUrl.parsable => reply.kind = "null"
            /\ sponsorPages' = FindSponsorPages(BaseUrl(websiteUrl), reply)
            /\ sresult' = [sresult EXCEPT !.scrapedUrls = sponsorPages']
            /\ pagesRead' = IF reply.kind = "ok" THEN 1 ELSE 0
            /\ fetchLog' = <<[page |-> 0, ok |-> reply.kind = "ok"]>>
            /\ spc' = "pages"
  /\ UNCHANGED <<websiteUrl, pageIdx, matched, allSponsors>>
  /\ UNCHANGED <<dvars, rvars, pvars>>

\* the loop of lines 1232-1235 gives up on everything once a page fails
NextPageAfterFailure_AbortRun(idx, pages) == Len(pages) + 1

\* extractSponsorsFromPage returns its empty list (line 646, or the catch of
\* line 931) and the loop of lines 1232-1235 goes on with the next page
NextPageAfterFailure(idx, pages) == idx + 1

\* extractSponsorsFromPage, lines 645-649: the fetch of the next page
FetchSponsorPage ==
  /\ spc = "pages"
  /\ pageIdx <= Len(sponsorPages)
  /\ \E kind \in PageReplyKinds :
       /\ fetchLog' = Append(fetchLog, [page |-> pageIdx, ok |-> kind = "ok"])
       /\ IF kind = "ok"
          THEN /\ spc' = "extract"
               /\ matched' = [matched EXCEPT !.rank = 1]
               /\ pagesRead' = pagesRead + 1
               /\ UNCHANGED pageIdx
          ELSE /\ pageIdx' = NextPageAfterFailure(pageIdx, sponsorPages)
               /\ UNCHANGED <<spc, matched, pagesRead>>
  /\ UNCHANGED <<websiteUrl, sponsorPages, allSponsors, sresult>>
  /\ UNCHANGED <<dvars, rvars, pvars>>

\* extractSponsorsFromPage, lines 651-930: one element matched by one of the
\* selectors, in the order of the strategies
MatchElement ==
  /\ spc = "extract"
  /\ matched.count < MaxMatches
  /\ \E e \in Elements :
       /\ StrategyRank(e.strategy) >= matched.rank
       /\ allSponsors' = allSponsors \o ElementSponsors(e, sponsorPages[pageIdx])
       /\ matched' = [count |-> matched.count + 1, rank |-> StrategyRank(e.strategy)]
  /\ UNCHANGED <<spc, websiteUrl, sponsorPages, pageIdx, pagesRead, fetchLog, sresult>>
  /\ UNCHANGED <<dvars, rvars, pvars>>

\* lines 935 and 1232-1235: the page is done
EndSponsorPage ==
  /\ spc = "extract"
  /\ spc' = "pages"
  /\ pageIdx' = pageIdx + 1
  /\ UNCHANGED <<websiteUrl, sponsorPages, matched, pagesRead, fetchLog, allSponsors,
                 sresult>>
  /\ UNCHANGED <<dvars, rvars, pvars>>

\* lines 1237-1261: deduplicate, filter, return
ScrapeReturn ==
  /\ spc = "pages"
  /\ pageIdx > Len(sponsorPages)
  /\ sresult' = [sresult EXCEPT !.sponsors = FinalFilter(DeduplicateSponsors(allSponsors))]
  /\ spc' = "returned"
  /\ UNCHANGED <<websiteUrl, sponsorPages, pageIdx, matched, pagesRead, fetchLog,
                 allSponsors>>
  /\ UNCHANGED <<dvars, rvars, pvars>>

NextScrape ==
  \/ ScrapeStart
  \/ FetchSponsorPage
  \/ MatchElement
  \/ EndSponsorPage
  \/ ScrapeReturn

SpecScrape == InitScrape /\ [][NextScrape]_vars

----------------------------------------------------------------------------
(* deduplicateSponsors on its own *)

LogoA == Url(ClubHost, "/img/a.png")

SiteA == Url(AcmeHost, "/")

ClubPage == Url(ClubHost, "/sponsors")

\* candidates with every combination of present and absent optional fields
Candidates ==
  {ScrapedSponsor(n, l, w, t, ClubPage) :
     n \in {<<"Acme">>, <<"ACME">>, <<"Acme", "Foods">>},
     l \in {NoUrl, LogoA}, w \in {NoUrl, SiteA}, t \in {"", "Gold"}}

\* the longest list given to deduplicateSponsors
MaxCandidates == 3

CandidateLists == UNION {[1..n -> Candidates] : n \in 0..MaxCandidates}

InitDedup ==
  /\ PureIdle
  /\ DiscoverIdle
  /\ RateIdle
  /\ spc = "dedup"
  /\ websiteUrl = SiteUrl(FALSE, FALSE, <<>>, FALSE)
  /\ sponsorPages = <<>>
  /\ pageIdx = 1
  /\ matched = [count |-> 0, rank |-> 1]
  /\ pagesRead = 0
  /\ fetchLog = <<>>
  /\ allSponsors \in CandidateLists
  /\ sresult = ScrapeResult(<<>>, <<>>, <<>>)

\* candidates whose populated fields differ from one duplicate to the next
LogoB == Url(AcmeHost, "/img/b.png")

SiteB == Url(AcmeFoodsHost, "/")

OtherPage == Url(ClubHost, "/partners")

FieldProfiles ==
  {[logoUrl |-> NoUrl, websiteUrl |-> NoUrl, tier |-> "",       sourceUrl |-> ClubPage],
   [logoUrl |-> LogoA, websiteUrl |-> NoUrl, tier |-> "Gold",   sourceUrl |-> ClubPage],
   [logoUrl |-> LogoB, websiteUrl |-> SiteB, tier |-> "",       sourceUrl |-> OtherPage],
   [logoUrl |-> NoUrl, websiteUrl |-> SiteA, tier |-> "Silver", sourceUrl |-> OtherPage]}

MergeCandidates ==
  {ScrapedSponsor(n, f.logoUrl, f.websiteUrl, f.tier, f.sourceUrl) :
     n \in {<<"Acme">>, <<"ACME">>, <<"Acme", "Foods">>}, f \in FieldProfiles}

\* the longest list of these candidates given to deduplicateSponsors
MaxMergeLen == 4

InitMerge ==
  /\ PureIdle
  /\ DiscoverIdle
  /\ RateIdle
  /\ spc = "dedup"
  /\ websiteUrl = SiteUrl(FALSE, FALSE, <<>>, FALSE)
  /\ sponsorPages = <<>>
  /\ pageIdx = 1
  /\ matched = [count |-> 0, rank |-> 1]
  /\ pagesRead = 0
  /\ fetchLog = <<>>
  /\ allSponsors \in UNION {[1..n -> MergeCandidates] : n \in 0..MaxMergeLen}
  /\ sresult = ScrapeResult(<<>>, <<>>, <<>>)

\* one call of deduplicateSponsors on the list
Deduplicate ==
  /\ spc = "dedup"
  /\ sresult' = [sresult EXCEPT !.sponsors = DeduplicateSponsors(allSponsors)]
  /\ spc' = "deduped"
  /\ UNCHANGED <<websiteUrl, sponsorPages, pageIdx, matched, pagesRead, fetchLog,
                 allSponsors>>
  /\ UNCHANGED <<dvars, rvars, pvars>>

NextDedup == Deduplicate

SpecDedup == InitDedup /\ [][NextDedup]_vars

SpecMerge == InitMerge /\ [][NextDedup]_vars

----------------------------------------------------------------------------
(* rateLimitedFetch as a state machine *)

InitRate ==
  /\ PureIdle
  /\ DiscoverIdle
  /\ ScrapeIdle
  /\ RateIdle

\* time passes
Tick ==
  /\ ticks < MaxTicks
  /\ \E c \in Callers : rcalls[c].pc # "idle"
  /\ \E c \in Callers : rcalls[c].pc # "done"
  /\ now' = now + Quantum
  /\ ticks' = ticks + 1
  /\ UNCHANGED <<lastRequestTime, rcalls>>
  /\ UNCHANGED <<dvars, svars, pvars>>

\* lines 137-160 up to the first await: an unparsable URL is caught at line
\* 180; a call that must wait starts its timer; any other call records the
\* time and sends its first request
EnterFetch(c) ==
  /\ rcalls[c].pc = "idle"
  /\ \A d \in Callers : d < c => rcalls[d].pc # "idle"
  /\ \E url \in FetchUrls :
       LET began == [rcalls[c] EXCEPT
                       !.url = url,
                       !.after = {d \in Callers : rcalls[d].pc = "done"}]
       IN  IF ~url.parsable
           THEN /\ rcalls' = [rcalls EXCEPT ![c] = [began EXCEPT !.pc = "done",
                                                                 !.result = "null"]]
                /\ UNCHANGED lastRequestTime
           ELSE LET lastTime == lastRequestTime[url.domain]
                    timeSinceLastRequest == now - lastTime
                IN  IF timeSinceLastRequest < SCRAPE_DELAY_MS
                    THEN /\ rcalls' = [rcalls EXCEPT ![c] =
                                [began EXCEPT !.pc = "sleeping", !.slept = TRUE,
                                              !.wakeAt = now + WaitMs(timeSinceLastRequest)]]
                         /\ UNCHANGED lastRequestTime
                    ELSE /\ rcalls' = [rcalls EXCEPT ![c] =
                                [began EXCEPT !.pc = "awaiting", !.recorded = now,
                                              !.tries = 1]]
                         /\ lastRequestTime' = [lastRequestTime EXCEPT ![url.domain] = now]
  /\ UNCHANGED <<now, ticks>>
  /\ UNCHANGED <<dvars, svars, pvars>>

\* lines 150-160 after the timer of line 145 fired: the time is recorded and
\* the first request sent
WakeUp(c) ==
  /\ rcalls[c].pc = "sleeping"
  /\ now >= rcalls[c].wakeAt
  /\ rcalls' = [rcalls EXCEPT ![c].pc = "awaiting", ![c].recorded = now,
                              ![c].wakeAt = 0, ![c].tries = 1]
  /\ lastRequestTime' = [lastRequestTime EXCEPT ![rcalls[c].url.domain] = now]
  /\ UNCHANGED <<now, ticks>>
  /\ UNCHANGED <<dvars, svars, pvars>>

\* lines 158-179: a fetch settled; the call returns the response, sends the
\* request for the next URL, or returns null
Settle(c) ==
  /\ rcalls[c].pc = "awaiting"
  /\ \E outcome \in FetchOutcomes :
       rcalls' = [rcalls EXCEPT ![c] =
          IF ReturnsResponse(outcome)
          THEN [@ EXCEPT !.pc = "done", !.last = outcome, !.result = "response"]
          ELSE IF @.tries < UrlsToTry(@.url)
          THEN [@ EXCEPT !.last = outcome, !.tries = @ + 1]
          ELSE [@ EXCEPT !.pc = "done", !.last = outcome, !.result = "null"]]
  /\ UNCHANGED <<now, ticks, lastRequestTime>>
  /\ UNCHANGED <<dvars, svars, pvars>>

NextRate ==
  \/ Tick
  \/ \E c \in Callers : EnterFetch(c)
  \/ \E c \in Callers : WakeUp(c)
  \/ \E c \in Callers : Settle(c)

SpecRate == InitRate /\ [][NextRate]_vars

----------------------------------------------------------------------------
(* cleanSponsorName on its own: applied to a raw text, then to its own result
   as the final filter of scrapeClubSponsors does (line 1245) *)

NameWords == {"Acme", "Foods", "Logo", "Sponsor", "Gold", "of", "cmyk", "qmp0samij3o2ocrz"}

\* the most words of a raw text given to cleanSponsorName
MaxNameWords == 3

RawTexts == UNION {[1..n -> NameWords] : n \in 0..MaxNameWords}

InitClean ==
  /\ DiscoverIdle
  /\ ScrapeIdle
  /\ RateIdle
  /\ fpc = "clean"
  /\ fin \in RawTexts
  /\ fout = <<>>

\* cleanSponsorName(rawText)
CleanOnce ==
  /\ fpc = "clean"
  /\ fout' = <<CleanSponsorName(fin)>>
  /\ fpc' = "cleaned"
  /\ UNCHANGED <<fin, dvars, svars, rvars>>

\* cleanSponsorName applied to the name it returned
CleanAgain ==
  /\ fpc = "cleaned"
  /\ fout' = Append(fout, CleanSponsorName(fout[1]))
  /\ fpc' = "recleaned"
  /\ UNCHANGED <<fin, dvars, svars, rvars>>

NextClean == CleanOnce \/ CleanAgain

SpecClean == InitClean /\ [][NextClean]_vars

----------------------------------------------------------------------------
(* guessEmails on its own, with an answer of the verifier ready for every
   pattern of the list *)

GuessInputs ==
  [domain : {AcmeDomain}, key : BOOLEAN,
   replies : [1..Len(GUESS_PATTERNS) -> VerifyReplies]]

InitGuess ==
  /\ DiscoverIdle
  /\ ScrapeIdle
  /\ RateIdle
  /\ fpc = "guess"
  /\ fin \in GuessInputs
  /\ fout = <<>>

\* guessEmails(domain)
Guess ==
  /\ fpc = "guess"
  /\ fout' = GuessEmails(fin.domain, fin.key, fin.replies)
  /\ fpc' = "guessed"
  /\ UNCHANGED <<fin, dvars, svars, rvars>>

NextGuess == Guess

SpecGuess == InitGuess /\ [][NextGuess]_vars

----------------------------------------------------------------------------
(* The tier of the heading strategy on its own: the heading is the set of
   the keywords its lower-cased text includes *)

HeadingKeywords ==
  {"sponsor", "partner", "supporter", "major", "principal", "gold", "silver",
   "bronze", "community"}

InitTier ==
  /\ DiscoverIdle
  /\ ScrapeIdle
  /\ RateIdle
  /\ fpc = "heading"
  /\ fin \in SUBSET HeadingKeywords
  /\ fout = <<>>

\* lines 807-828: a heading that is no sponsor heading is skipped
InferTier ==
  /\ fpc = "heading"
  /\ IF IsSponsorHeading(fin)
     THEN fout' = <<HeadingTier(fin)>> /\ fpc' = "tiered"
     ELSE fout' = <<>> /\ fpc' = "skipped"
  /\ UNCHANGED <<fin, dvars, svars, rvars>>

NextTier == InferTier

SpecTier == InitTier /\ [][NextTier]_vars

----------------------------------------------------------------------------
(* extractSponsorNameFromImage on its own, for an image of a sponsor section
   (Strategy 1, lines 659-684) *)

Images ==
  {Img(alt, title, href, src) :
     alt   \in {<<>>, <<"Acme">>, <<"Acme", "Foods">>, <<"cmyk">>, <<"Logo">>},
     title \in {<<>>, <<"Acme", "Pty", "Ltd">>, <<"Logo">>},
     href  \in {NoHref, Href("absolute", AcmeFoodsHost, "/"),
                Href("absolute", <<"facebook", "com">>, "/club"),
                Href("relative", <<>>, "/acme")},
     src   \in {NoSrc, Src(TRUE, <<"acme", "foods">>, "/img/acme-foods.png"),
                Src(TRUE, <<"logo">>, "/img/logo.png"),
                Src(TRUE, <<"Acme">>, "/img/Acme.png"),
                Src(TRUE, <<"acme", "pty", "ltd">>, "/img/acme-pty-ltd.png")}}

InitImage ==
  /\ DiscoverIdle
  /\ ScrapeIdle
  /\ RateIdle
  /\ fpc = "image"
  /\ fin \in Images
  /\ fout = <<>>

\* lines 662-683: the name of the image and what the section loop pushes
NameImage ==
  /\ fpc = "image"
  /\ fout' = [name   |-> ExtractSponsorNameFromImage(fin),
              pushed |-> ElementSponsors(Element("section", <<>>, FALSE, {}, TRUE, fin),
                                         ClubPage)]
  /\ fpc' = "named"
  /\ UNCHANGED <<fin, dvars, svars, rvars>>

NextImage == NameImage

SpecImage == InitImage /\ [][NextImage]_vars

\* ---------------------------------------------------------------------------
\* enrichWithPlaceDetails: place-detail requests in batches
\* ---------------------------------------------------------------------------

BATCH_SIZE == 5

MaxPlaces == 6

\* a searched place: its id and the website the nearby search knew ("" = none)
Place(id) == [placeId |-> id, website |-> IF id % 2 = 0 THEN "search" ELSE ""]

PlaceLists == {[i \in 1..n |-> Place(i)] : n \in 0..MaxPlaces}

\* what one fetchPlaceDetails call can come to: details with or without a
\* website, null for a status other than OK, or an exception
DetailOutcomes == {"website", "nowebsite", "null", "threw"}

\* places.slice(i, i + BATCH_SIZE), as the indices it holds (i counts from 0)
BatchEnd_All(i, n) == n

BatchEnd(i, n) == Min2(i + BATCH_SIZE, n)

Batch(i, n) == (i + 1)..BatchEnd(i, n)

\* the value one callback of batch.map resolves to
Enriched(place, outcome) ==
  IF outcome = "website" THEN [place EXCEPT !.website = "details"] ELSE place

RECURSIVE BatchResults(_, _, _, _)
BatchResults(places, req, from, to) ==
  IF from > to THEN <<>>
  ELSE <<Enriched(places[from], req[from])>>
         \o BatchResults(places, req, from + 1, to)

InitEnrich ==
  /\ DiscoverIdle /\ ScrapeIdle /\ RateIdle
  /\ fpc = "called"
  /\ fin \in PlaceLists
  /\ fout = <<>>

\* the call: the first batch.map sends the requests of the first batch
EnrichStart ==
  /\ fpc = "called"
  /\ IF Len(fin) = 0
     THEN /\ fpc' = "enriched"
          /\ fout' = [i |-> 0, req |-> <<>>, results |-> <<>>]
     ELSE /\ fpc' = "batch"
          /\ fout' = [i |-> 0,
                      req |-> [j \in 1..Len(fin) |->
                                 IF j \in Batch(0, Len(fin)) THEN "inflight" ELSE "none"],
                      results |-> <<>>]
  /\ UNCHANGED <<fin, dvars, svars, rvars>>

\* one request of the batch settles
SettleDetail ==
  /\ fpc = "batch"
  /\ \E j \in 1..Len(fin), o \in DetailOutcomes :
       /\ fout.req[j] = "inflight"
       /\ fout' = [fout EXCEPT !.req[j] = o]
  /\ UNCHANGED <<fpc, fin, dvars, svars, rvars>>

\* Promise.all resolves: the batch's results are pushed and the loop goes on
BatchDone ==
  /\ fpc = "batch"
  /\ \A j \in Batch(fout.i, Len(fin)) : fout.req[j] # "inflight"
  /\ LET n       == Len(fin)
         results == fout.results \o BatchResults(fin, fout.req, fout.i + 1, BatchEnd(fout.i, n))
         i       == fout.i + BATCH_SIZE
     IN  IF i < n
         THEN /\ fpc' = "batch"
              /\ fout' = [i |-> i,
                          req |-> [j \in 1..n |->
                                     IF j \in Batch(i, n) THEN "inflight" ELSE fout.req[j]],
                          results |-> results]
         ELSE /\ fpc' = "enriched"
              /\ fout' = [fout EXCEPT !.i = i, !.results = results]
  /\ UNCHANGED <<fin, dvars, svars, rvars>>

NextEnrich == EnrichStart \/ SettleDetail \/ BatchDone

SpecEnrich == InitEnrich /\ [][NextEnrich]_vars

----------------------------------------------------------------------------
(* Both pipelines in one specification *)

InitPipelines == InitDiscover \/ InitScrape

NextPipelines == NextDiscover \/ NextScrape

SpecPipelines == InitPipelines /\ [][NextPipelines]_vars

----------------------------------------------------------------------------
(* Claims about the sponsor scraper *)

\* C2: every sponsor of the ScrapeResult that scrapeClubSponsors returns has a
\* name of 2 to 100 characters that isGarbageText does not reject, that no
\* blocklist pattern matches, and for which isValidSponsorName holds.
C2_ReturnedNamesValid ==
  spc = "returned" =>
    \A s \in Range(sresult.sponsors) :
      /\ CharLen(s.name) >= 2
      /\ CharLen(s.name) <= 100
      /\ ~IsGarbageText(s.name)
      /\ ~MatchesNonSponsorPattern(s.name)
      /\ IsValidSponsorName(s.name)

\* C2 witness: a run that returned a sponsor and dropped a candidate whose
\* cleaned name is not valid
C2_Witness ==
  /\ spc = "returned"
  /\ sresult.sponsors # <<>>
  /\ \E c \in Range(allSponsors) :
       c.name # <<>> /\ ~IsValidSponsorName(CleanSponsorName(c.name))

\* C3: after deduplicateSponsors, every name key of the input has exactly one
\* output entity, and that entity has a logoUrl (a websiteUrl, a tier) whenever
\* some input candidate with the key has one; two same-name candidates, one
\* with only a logo and one with only a website, give one entity with both.
C3_DedupKeepsFields ==
  spc = "deduped" =>
    LET out == sresult.sponsors
    IN  /\ \A i \in 1..Len(allSponsors) :
             LET c    == allSponsors[i]
                 same == {j \in 1..Len(out) : Lower(out[j].name) = Lower(c.name)}
             IN  /\ Cardinality(same) = 1
                 /\ \A j \in same :
                      /\ c.logoUrl # NoUrl => out[j].logoUrl # NoUrl
                      /\ c.websiteUrl # NoUrl => out[j].websiteUrl # NoUrl
                      /\ c.tier # "" => out[j].tier # ""
        /\ \A j \in 1..Len(out) :
             \E i \in 1..Len(allSponsors) : Lower(out[j].name) = Lower(allSponsors[i].name)
        /\ (/\ Len(allSponsors) = 2
            /\ Lower(allSponsors[1].name) = Lower(allSponsors[2].name)
            /\ allSponsors[1].logoUrl # NoUrl /\ allSponsors[1].websiteUrl = NoUrl
            /\ allSponsors[2].logoUrl = NoUrl /\ allSponsors[2].websiteUrl # NoUrl)
           => (Len(out) = 1 /\ out[1].logoUrl # NoUrl /\ out[1].websiteUrl # NoUrl)

\* C3 witness: a logo-only and a website-only candidate of the same name,
\* differing in case, merged into one entity
C3_Witness ==
  /\ spc = "deduped"
  /\ Len(allSponsors) = 2
  /\ allSponsors[1].name = <<"Acme">> /\ allSponsors[2].name = <<"ACME">>
  /\ allSponsors[1].logoUrl # NoUrl /\ allSponsors[1].websiteUrl = NoUrl
  /\ allSponsors[2].logoUrl = NoUrl /\ allSponsors[2].websiteUrl # NoUrl
  /\ Len(sresult.sponsors) = 1

\* C4: in the ScrapeResult that scrapeClubSponsors returns, no two sponsors
\* have names that are equal when compared case-insensitively.
C4_NoDuplicateNames ==
  spc = "returned" =>
    \A i, j \in 1..Len(sresult.sponsors) :
      i # j => Lower(sresult.sponsors[i].name) # Lower(sresult.sponsors[j].name)

----------------------------------------------------------------------------
(* Claims about contact discovery *)

\* the contacts the website scrape and the enrichment API have collected
EarlierContacts == SelectSeq(contacts, LAMBDA c : c.source # "pattern")

\* C1: guessEmails is called only with the contacts of the two earlier
\* strategies complete and none of them carrying an email; and when an earlier
\* strategy produced an email, no returned contact has source "pattern".
C1_PatternGuessOnlyWithoutEmail ==
  /\ \A i \in 1..Len(calls) :
       calls[i].fn = "guessEmails" =>
         /\ calls[i].seen = EarlierContacts
         /\ \A c \in Range(calls[i].seen) : c.email = <<>>
  /\ (dpc = "returned" /\ \E c \in Range(EarlierContacts) : c.email # <<>>) =>
       \A c \in Range(dresult) : c.source # "pattern"

\* C1 witness: discovery returned with a low-confidence API email collected
C1_Witness ==
  /\ dpc = "returned"
  /\ \E c \in Range(dresult) : c.source = "api" /\ c.confidence = "low" /\ c.email # <<>>
  /\ \A c \in Range(contacts) : c.confidence # "high"

\* C5: the handler's best contact is the first high-confidence contact with an
\* email, else the first medium-confidence one with an email, else the first
\* contact with an email (none when no contact has an email).
C5_BestContactByConfidence ==
  (hpc = "responded" /\ dpc = "returned" /\ dresult # <<>>) =>
    LET WithEmail(conf) ==
          {i \in 1..Len(dresult) :
             dresult[i].email # <<>> /\ (conf = "any" \/ dresult[i].confidence = conf)}
        First(S) == CHOOSE i \in S : \A j \in S : i <= j
    IN  IF WithEmail("high") # {} THEN bestContact = dresult[First(WithEmail("high"))]
        ELSE IF WithEmail("medium") # {}
             THEN bestContact = dresult[First(WithEmail("medium"))]
        ELSE IF WithEmail("any") # {}
             THEN bestContact = dresult[First(WithEmail("any"))]
        ELSE bestContact.email = <<>>

\* C5 witness: a low-confidence email stands before a high-confidence one and
\* the high-confidence one was picked
C5_Witness ==
  /\ hpc = "responded"
  /\ \E i, j \in 1..Len(dresult) :
       /\ i < j
       /\ dresult[i].email # <<>> /\ dresult[i].confidence = "low"
       /\ dresult[j].email # <<>> /\ dresult[j].confidence = "high"
       /\ bestContact = dresult[j]

\* C8: findEmailViaHunter is called only with an API key configured and no
\* contact collected so far that has an email at confidence high; without an
\* API key the step from Strategy 2 goes on to Strategy 3 with the contacts
\* untouched and nothing thrown.
C8_EnrichmentOnlyWhenDue ==
  /\ [](\A i \in 1..Len(calls) :
          calls[i].fn = "findEmailViaHunter" =>
            /\ hasApiKey
            /\ ~\E c \in Range(calls[i].seen) : c.email # <<>> /\ c.confidence = "high")
  /\ [][(dpc = "strategy2" /\ ~hasApiKey) =>
          (dpc' = "strategy3" /\ contacts' = contacts /\ calls' = calls)]_vars

\* C8 witness: the enrichment API was called after the website gave only links
C8_Witness ==
  /\ Len(calls) > 0
  /\ calls[1].fn = "findEmailViaHunter"
  /\ calls[1].seen # <<>>
  /\ hasApiKey

----------------------------------------------------------------------------
(* Claims about rateLimitedFetch *)

\* C6: a call to a hostname that begins after an earlier call to the same
\* hostname has returned sends no request before SCRAPE_DELAY_MS have passed
\* since the time the earlier call recorded: while it waits it has sent
\* nothing and its timer is not due before then, and the time at which it
\* then sends is at least SCRAPE_DELAY_MS after the recorded time.
C6_SequentialCallsWait ==
  \A c \in Callers : \A d \in rcalls[c].after :
    (rcalls[d].recorded # 0 /\ rcalls[c].url.parsable
       /\ rcalls[c].url.domain = rcalls[d].url.domain) =>
      /\ rcalls[c].pc = "sleeping" =>
           /\ rcalls[c].recorded = 0 /\ rcalls[c].tries = 0
           /\ rcalls[c].wakeAt >= rcalls[d].recorded + SCRAPE_DELAY_MS
      /\ rcalls[c].recorded # 0 =>
           rcalls[c].recorded >= rcalls[d].recorded + SCRAPE_DELAY_MS

\* C6 witness: a call that began less than SCRAPE_DELAY_MS after the time
\* recorded by a call that had returned, waited, and then sent its request
C6_Witness ==
  \E c \in Callers : \E d \in rcalls[c].after :
    /\ rcalls[d].recorded # 0
    /\ rcalls[c].slept
    /\ rcalls[c].recorded = rcalls[d].recorded + SCRAPE_DELAY_MS
    /\ rcalls[c].tries >= 1

\* C7: the first requests of any two calls to the same hostname, in whatever
\* way the calls interleave, are sent at least SCRAPE_DELAY_MS apart.
C7_IntervalUnderConcurrency ==
  \A c, d \in Callers :
    (c # d /\ rcalls[c].recorded # 0 /\ rcalls[d].recorded # 0
       /\ rcalls[c].url.domain = rcalls[d].url.domain) =>
      \/ rcalls[c].recorded - rcalls[d].recorded >= SCRAPE_DELAY_MS
      \/ rcalls[d].recorded - rcalls[c].recorded >= SCRAPE_DELAY_MS

\* C10: rateLimitedFetch never throws: a call that has not returned has no
\* result, and a call that returned gave the response if its last request was
\* answered with a 2xx status and null otherwise, that is after a non-2xx
\* answer, an exception or a timeout of the last URL tried, or without any
\* request for a URL that cannot be parsed.
C10_FetchNeverThrows ==
  \A c \in Callers :
    /\ rcalls[c].result # "threw"
    /\ rcalls[c].pc # "done" => rcalls[c].result = "pending"
    /\ rcalls[c].pc = "done" =>
         /\ rcalls[c].result \in {"response", "null"}
         /\ rcalls[c].result = "response" <=> rcalls[c].last = "ok2xx"
         /\ rcalls[c].last \in {"non2xx", "exception", "timeout"} =>
              rcalls[c].result = "null"
         /\ ~rcalls[c].url.parsable => (rcalls[c].result = "null" /\ rcalls[c].tries = 0)

\* C10 witness: calls have returned null for an unparsable URL, null after a
\* non-2xx answer, and a response
C10_Witness ==
  /\ \E c \in Callers :
       rcalls[c].pc = "done" /\ ~rcalls[c].url.parsable /\ rcalls[c].result = "null"
  /\ \E c \in Callers :
       rcalls[c].pc = "done" /\ rcalls[c].last = "non2xx" /\ rcalls[c].result = "null"
  /\ \E c \in Callers :
       rcalls[c].pc = "done" /\ rcalls[c].last = "ok2xx" /\ rcalls[c].result = "response"

----------------------------------------------------------------------------
(* Claims about both pipelines *)

----------------------------------------------------------------------------
(* Claims about failing fetches and the pages of a run *)

\* the pages of sponsorPages whose fetch was attempted
AttemptedPages == {fetchLog[i].page : i \in 1..Len(fetchLog)} \ {0}

\* the entries of the log of fetches that failed
FailedFetches == {i \in 1..Len(fetchLog) : ~fetchLog[i].ok}

IsPrefix(s, t) == Len(s) <= Len(t) /\ SubSeq(t, 1, Len(s)) = s

\* C11: a page whose fetch fails ends only its own extraction: when
\* scrapeClubSponsors returns, the fetch of every page of the list was
\* attempted, no step ever removes a sponsor already collected, and the result
\* is computed from all the sponsors collected on the other pages.
C11_FailedPageSkipsOnlyItself ==
  /\ [](spc = "returned" => AttemptedPages = 1..Len(sponsorPages))
  /\ [][IsPrefix(allSponsors, allSponsors')]_vars
  /\ [](spc = "returned" /\ websiteUrl.given =>
          sresult.sponsors = FinalFilter(DeduplicateSponsors(allSponsors)))

\* a returned run in which a page failed between two pages that each gave a
\* sponsor of the result
C11_Witness ==
  /\ spc = "returned"
  /\ \E i, j, k \in 1..Len(fetchLog) :
       /\ i < j /\ j < k
       /\ fetchLog[i].ok /\ fetchLog[i].page >= 1
       /\ ~fetchLog[j].ok
       /\ fetchLog[k].ok
       /\ \E a, b \in Range(sresult.sponsors) :
            /\ a.sourceUrl = sponsorPages[fetchLog[i].page]
            /\ b.sourceUrl = sponsorPages[fetchLog[k].page]

\* C12: when scrapeClubSponsors returns after a fetch of the homepage or of a
\* page failed, ScrapeResult.errors has an entry.
C12_FetchFailureInErrors ==
  (spc = "returned" /\ FailedFetches # {}) => sresult.errors # <<>>

\* C13: findSponsorPages returns at most 5 URLs, the base URL among them.
C13_PagesBoundedWithHomepage ==
  (spc \in {"pages", "extract", "returned"} /\ websiteUrl.given) =>
    /\ Len(sponsorPages) <= MAX_SPONSOR_PAGES
    /\ BaseUrl(websiteUrl) \in Range(sponsorPages)

----------------------------------------------------------------------------
(* Claims about the contacts discoverContacts returns *)

\* C15: every contact discoverContacts returns has an email, a phone or a
\* linkedIn.
C15_ContactHasChannel ==
  dpc = "returned" =>
    \A c \in Range(dresult) : c.email # NoEmail \/ c.phone # "" \/ c.linkedIn # ""

\* discoverContacts returned contacts after it had collected one without email,
\* phone and linkedIn
C15_Witness ==
  /\ dpc = "returned"
  /\ dresult # <<>>
  /\ \E c \in Range(contacts) : c.email = NoEmail /\ c.phone = "" /\ c.linkedIn = ""

\* the verifier answered for the address with a status verifyEmailWithHunter
\* accepts
VerifierAccepted(email) ==
  \E st \in {"valid", "accept_all"} : <<email, st>> \in apiLog.verifier

\* C16: a returned contact is verified only if it was found on the website, or
\* the domain search reported its address as valid, or the verifier accepted
\* the guessed address; a pattern guess the verifier did not accept is returned
\* with verified = false.
C16_VerifiedOnlyWhenConfirmed ==
  dpc = "returned" =>
    \A c \in Range(dresult) :
      /\ c.verified = "true" =>
            \/ c.source = "website"
            \/ c.source = "api" /\ c.email \in apiLog.valid
            \/ c.source = "pattern" /\ VerifierAccepted(c.email)
      /\ (c.source = "pattern" /\ ~VerifierAccepted(c.email)) => c.verified = "false"

\* a returned list with a verified and an unverified contact of the domain search
C16_Witness ==
  /\ dpc = "returned"
  /\ \E c, d \in Range(dresult) :
       /\ c.source = "api" /\ c.verified = "true"
       /\ d.source = "api" /\ d.verified = "false"

\* a returned pattern guess the verifier rejected or was never asked about
C16_GuessWitness ==
  /\ dpc = "returned"
  /\ \E c \in Range(dresult) : c.source = "pattern" /\ c.verified = "false"

\* the positions of `contacts` that hold the first contact of a key
FirstOfKey ==
  {i \in 1..Len(contacts) :
     /\ ContactKey(contacts[i]) # <<>>
     /\ \A j \in 1..(i - 1) : ContactKey(contacts[j]) # ContactKey(contacts[i])}

\* the k-th smallest position of FirstOfKey
KthFirst(k) == CHOOSE i \in FirstOfKey : Cardinality({j \in FirstOfKey : j <= i}) = k

\* C17: the returned contacts have pairwise different keys, and they are the
\* first contact of every key in the order in which the strategies pushed
\* them (website, API, pattern).
C17_ContactsFirstOfKeyInOrder ==
  dpc = "returned" =>
    /\ \A i, j \in 1..Len(dresult) :
         i # j => ContactKey(dresult[i]) # ContactKey(dresult[j])
    /\ Len(dresult) = Cardinality(FirstOfKey)
    /\ \A k \in 1..Len(dresult) : dresult[k] = contacts[KthFirst(k)]

\* a returned list with contacts of two strategies where a later contact with
\* the key of an earlier, different contact was dropped
C17_Witness ==
  /\ dpc = "returned"
  /\ \E i, j, k \in 1..Len(contacts) :
       /\ i < j /\ k < i
       /\ ContactKey(contacts[i]) # <<>>
       /\ ContactKey(contacts[i]) = ContactKey(contacts[j])
       /\ contacts[i] # contacts[j]
       /\ k \in FirstOfKey
  /\ \E c \in Range(dresult) : c.linkedIn # ""

----------------------------------------------------------------------------
(* Claims about the merge of deduplicateSponsors *)

\* the positions of allSponsors that hold the first candidate of a name key
FirstOfName ==
  {i \in 1..Len(allSponsors) :
     \A j \in 1..(i - 1) : Lower(allSponsors[j].name) # Lower(allSponsors[i].name)}

\* the k-th smallest position of FirstOfName
KthFirstOfName(k) ==
  CHOOSE i \in FirstOfName : Cardinality({j \in FirstOfName : j <= i}) = k

\* the positions after i of the duplicates of candidate i
LaterDuplicates(i) ==
  {j \in (i + 1)..Len(allSponsors) :
     Lower(allSponsors[j].name) = Lower(allSponsors[i].name)}

\* the value the claim gives a field of the output entity of candidate i:
\* `own` if present, else that of the earliest later duplicate that has one
FilledFrom(own, later, absent) ==
  IF own # absent THEN own
  ELSE LET have == {j \in DOMAIN later : later[j] # absent}
       IN  IF have = {} THEN absent
           ELSE later[CHOOSE j \in have : \A h \in have : j <= h]

\* C18: the output of deduplicateSponsors has one entity per name key, in the
\* order of the keys' first occurrence; each is the first-seen candidate with
\* name and sourceUrl unchanged, every field it had kept, and every field it
\* lacked taken from the earliest later duplicate that has it.
C18_MergeFillsNeverOverwrites ==
  spc = "deduped" =>
    LET out == sresult.sponsors
    IN  /\ Len(out) = Cardinality(FirstOfName)
        /\ \A k \in 1..Len(out) :
             LET i     == KthFirstOfName(k)
                 first == allSponsors[i]
                 dups  == LaterDuplicates(i)
             IN  /\ out[k].name = first.name
                 /\ out[k].sourceUrl = first.sourceUrl
                 /\ out[k].logoUrl =
                      FilledFrom(first.logoUrl, [j \in dups |-> allSponsors[j].logoUrl], NoUrl)
                 /\ out[k].websiteUrl =
                      FilledFrom(first.websiteUrl,
                                 [j \in dups |-> allSponsors[j].websiteUrl], NoUrl)
                 /\ out[k].tier =
                      FilledFrom(first.tier, [j \in dups |-> allSponsors[j].tier], "")

\* a first-seen candidate with a logo and no website, followed by two
\* duplicates with other logos and two different websites, and a second key
C18_Witness ==
  /\ spc = "deduped"
  /\ Len(sresult.sponsors) = 2
  /\ Len(allSponsors) = 4
  /\ \E i, j, k \in 1..4 :
       /\ i < j /\ j < k
       /\ Lower(allSponsors[i].name) = Lower(allSponsors[j].name)
       /\ Lower(allSponsors[i].name) = Lower(allSponsors[k].name)
       /\ allSponsors[i].logoUrl = LogoA /\ allSponsors[i].websiteUrl = NoUrl
       /\ allSponsors[j].logoUrl = LogoB /\ allSponsors[j].websiteUrl = SiteB
       /\ allSponsors[k].websiteUrl = SiteA
       /\ allSponsors[i].sourceUrl # allSponsors[j].sourceUrl

----------------------------------------------------------------------------
(* Claims about cleanSponsorName and guessEmails *)

\* C19: cleanSponsorName applied to its own result returns that result.
C19_CleanIdempotent ==
  fpc = "recleaned" => fout[2] = fout[1]

\* the patterns, in order, up to the first one whose address the verifier
\* accepts; all of them when it accepts none
PatternsUpToFirstHit ==
  LET hits == {i \in 1..Len(GUESS_PATTERNS) :
                 VerifyEmailWithHunter(fin.key, fin.replies[i]) = "true"}
      last == IF hits = {} THEN Len(GUESS_PATTERNS)
              ELSE CHOOSE i \in hits : \A h \in hits : i <= h
  IN  [found |-> hits # {}, patterns |-> SubSeq(GUESS_PATTERNS, 1, last)]

\* C20: with an API key, guessEmails sends info@, contact@, hello@, enquiries@,
\* admin@ to the verifier in this order, one call each, up to the first address
\* that verifies, and then returns exactly that address as a verified pattern
\* guess of medium confidence.
C20_VerifiesAllGuessesInOrder ==
  (fpc = "guessed" /\ fin.key) =>
    LET want == PatternsUpToFirstHit
        n    == Len(want.patterns)
    IN  /\ fout.verified = [i \in 1..n |-> MkEmail(want.patterns[i], fin.domain)]
        /\ want.found =>
             fout.contacts = <<Contact(MkEmail(want.patterns[n], fin.domain), "", "",
                                       "pattern", "medium", "true")>>

\* none of the addresses guessEmails sent to the verifier was accepted
NoGuessVerified ==
  \A i \in 1..Len(fout.verified) :
    VerifyEmailWithHunter(fin.key, fin.replies[i]) # "true"

\* C21: guessEmails returns exactly one contact in every case; without an API
\* key, or when no address it had verified was accepted, that contact is
\* info@domain with source pattern, confidence low and verified = false.
C21_SingleGuessWithFallback ==
  fpc = "guessed" =>
    /\ Len(fout.contacts) = 1
    /\ (~fin.key \/ NoGuessVerified) =>
         fout.contacts = <<Contact(MkEmail("info", fin.domain), "", "", "pattern",
                                   "low", "false")>>

\* a call with an API key in which the verifier rejected one address and
\* failed for the other
C21_Witness ==
  /\ fpc = "guessed"
  /\ fin.key
  /\ Len(fout.verified) = 2
  /\ fin.replies[1] = "invalid" /\ fin.replies[2] = "throw"
  /\ fout.contacts[1].confidence = "low"

----------------------------------------------------------------------------
(* Claims about the website scrape of discoverContacts *)

\* the contacts with an email that the website scrape pushed
WebsiteEmailContacts ==
  SelectSeq(contacts, LAMBDA c : c.source = "website" /\ c.email # NoEmail)

\* C22: the contact pages are requested in the order of CONTACT_PAGE_PATTERNS
\* (the homepage is its last entry); a page that fails or has no business email
\* is followed by the next one; no page is requested after one that gave a
\* business email; the scrape gives at most 3 email contacts, all of that
\* page, each with source website and confidence high.
C22_ContactPagesInOrderUntilFirstHit ==
  /\ [](pageLog = [i \in 1..Len(pageLog) |->
                     [path |-> CONTACT_PAGE_PATTERNS[i], found |-> pageLog[i].found]])
  /\ [](\A i \in 1..(Len(pageLog) - 1) : pageLog[i].found = <<>>)
  /\ []((dpc \notin {"idle", "scrape"} /\ sponsor.website.given
          /\ sponsor.website.parsable /\ WebsiteEmailContacts = <<>>)
         => Len(pageLog) = Len(CONTACT_PAGE_PATTERNS))
  /\ [](/\ Len(WebsiteEmailContacts) <= MAX_SCRAPED_EMAILS
        /\ \A c \in Range(WebsiteEmailContacts) :
             /\ c.confidence = "high"
             /\ pageLog # <<>>
             /\ c.email \in Range(pageLog[Len(pageLog)].found))

\* the scrape skipped a failing contact page and stopped at a later page with
\* more than three business emails
C22_Witness ==
  /\ dpc = "returned"
  /\ Len(pageLog) \in 2..(Len(CONTACT_PAGE_PATTERNS) - 1)
  /\ Len(pageLog[Len(pageLog)].found) > MAX_SCRAPED_EMAILS
  /\ Len(WebsiteEmailContacts) = MAX_SCRAPED_EMAILS

----------------------------------------------------------------------------
(* Claims about the sponsor extractor's helpers *)

\* the tier the claim gives a heading
ClaimedTier(keywords) ==
  IF "major" \in keywords \/ "principal" \in keywords THEN "Principal"
  ELSE IF "gold" \in keywords THEN "Gold"
  ELSE IF "silver" \in keywords THEN "Silver"
  ELSE IF "bronze" \in keywords THEN "Bronze"
  ELSE IF "community" \in keywords THEN "Community"
  ELSE ""

\* C23: the heading strategy gives the tier of the first keyword found, in
\* the order major or principal (Principal), gold (Gold), silver (Silver),
\* bronze (Bronze), community (Community), and no tier without a keyword.
C23_HeadingTierByKeyword ==
  fpc = "tiered" => fout = <<ClaimedTier(fin)>>

\* C24: every URL findSponsorPages returns is on the host of baseUrl, whatever
\* the kind of the matched href (relative, absolute, protocol-relative).
C24_SponsorPagesOnSameHost ==
  spc \in {"pages", "extract", "returned"} =>
    \A i \in 1..Len(sponsorPages) : sponsorPages[i].host = websiteUrl.host

\* a cleaned name when it is valid, else <<>>
ValidName(raw) ==
  LET cleaned == CleanSponsorName(raw)
  IN  IF raw # <<>> /\ cleaned # <<>> /\ IsValidSponsorName(cleaned) THEN cleaned ELSE <<>>

\* the name each source of an image yields, in the order of the claim: alt,
\* title, domain of the enclosing link, file name
SourceNames(img) ==
  LET fromUrl  == IF img.href.kind = "absolute"
                  THEN ExtractCompanyNameFromUrl(img.href.host) ELSE <<>>
      fromFile == IF img.src.given THEN ValidName(img.src.stem) ELSE <<>>
      long     == SelectSeq(fromFile, LAMBDA w : WordInfo[w].len > 1)
  IN  <<ValidName(img.alt),
        ValidName(img.title),
        IF fromUrl # <<>> /\ IsValidSponsorName(fromUrl) THEN fromUrl ELSE <<>>,
        IF Len(long) >= 2 \/ HasBusinessSuffix(fromFile) THEN fromFile ELSE <<>>>>

InFlight == {j \in 1..Len(fin) : fout.req[j] = "inflight"}

\* C26: enrichWithPlaceDetails never has more than 5 place-detail requests in
\* flight; the places go in consecutive batches of at most 5, a batch starts
\* only after every request of the batch before it has settled, a failed
\* request leaves its place unchanged without failing the batch, and the
\* output has the length and the order of the input.
C26_BatchesOfFive ==
  /\ fpc = "batch" =>
       /\ Cardinality(InFlight) <= 5
       /\ InFlight \subseteq (fout.i + 1)..(fout.i + 5)
       /\ fout.i % 5 = 0
       /\ \A j \in 1..Len(fin) :
            /\ j <= fout.i => fout.req[j] \notin {"none", "inflight"}
            /\ j > fout.i + 5 => fout.req[j] = "none"
       /\ Len(fout.results) = fout.i
  /\ fpc = "enriched" =>
       /\ Len(fout.results) = Len(fin)
       /\ \A j \in 1..Len(fin) :
            /\ fout.results[j].placeId = fin[j].placeId
            /\ fout.req[j] \in {"null", "threw"} => fout.results[j] = fin[j]
            /\ fout.req[j] \in DetailOutcomes

\* six places, a request of the first batch threw, and the sixth place got its
\* details in the second batch
C26_Witness ==
  /\ fpc = "enriched"
  /\ Len(fin) = 6
  /\ fout.req[2] = "threw" /\ fout.results[2] = fin[2]
  /\ fout.req[6] = "website" /\ fout.results[6] # fin[6]


----------------------------------------------------------------------------
(* Claims about the strategies of discoverContacts taken together *)

\* C27: no result of discoverContacts holds both an email contact with source
\* website and a contact with source api: a website-scraped email has
\* confidence high, and once the website scrape gave an email the enrichment
\* API is not called.
C27_WebsiteEmailExcludesApi ==
  /\ \A c \in Range(WebsiteEmailContacts) : c.confidence = "high"
  /\ WebsiteEmailContacts # <<>> =>
       /\ \A i \in 1..Len(calls) : calls[i].fn # "findEmailViaHunter"
       /\ \A c \in Range(contacts) : c.source # "api"
  /\ dpc = "returned" =>
       ~\E c, d \in Range(dresult) :
          c.source = "website" /\ HasEmail(c) /\ d.source = "api"

\* a result with a website email although an API key is configured
C27_Witness ==
  /\ dpc = "returned"
  /\ hasApiKey
  /\ \E c \in Range(dresult) : c.source = "website" /\ HasEmail(c)
  /\ \E c \in Range(dresult) : c.source = "website" /\ ~HasEmail(c)

\* C28: whenever a domain can be derived, from the website's host name or,
\* failing that, from a company name whose slug has at least 3 characters, the
\* result of discoverContacts holds at least one contact with an email,
\* whatever the fetches and the API calls did; the result is without an email
\* only when the website gives no host name and the slug of the company name
\* is shorter than 3 characters.
C28_EmailWheneverDomain ==
  /\ dpc # "threw"
  /\ dpc = "returned" =>
       LET fromSite == ExtractDomain(sponsor.website)
           fromName == GuessDomain(CleanAndDecodeText(sponsor.companyName))
       IN  /\ (fromSite # <<>> \/ fromName # <<>>) => HasAnyEmail(dresult)
           /\ ~HasAnyEmail(dresult) => fromSite = <<>> /\ fromName = <<>>

\* every page fetch and the API failed, the verifier threw for both guesses,
\* and the result still holds a guessed address
C28_Witness ==
  /\ dpc = "returned"
  /\ hasApiKey
  /\ sponsor.website.given /\ sponsor.website.parsable
  /\ Len(pageLog) = Len(CONTACT_PAGE_PATTERNS)
  /\ \A c \in Range(contacts) : c.source = "pattern"
  /\ \E e \in {"info", "contact"} :
       <<MkEmail(e, ExtractDomain(sponsor.website)), "throw">> \in apiLog.verifier
  /\ HasAnyEmail(dresult)

\* a result without any email: no host name and a company name too short
C28_NoDomainWitness ==
  /\ dpc = "returned"
  /\ sponsor.website.given
  /\ ~HasAnyEmail(dresult)

----------------------------------------------------------------------------
(* Claims about the handler's update of the sponsor *)

C30_ClientPicksServerBest ==
  (hpc = "responded" /\ httpStatus = 200) =>
     HandleDiscoverContact(TRUE, dresult).email = bestContact.email

====
